---- MODULE Spec2Model ----
(***************************************************************************)
(* A model of the client-side stream registry of the PandaPi dashboard:    *)
(* SimpleStreamSync (packages/nextjs/lib/simpleStreamSync.ts) and its      *)
(* facade StreamingContract.  localStorage is a sequence of key/value      *)
(* entries in the order localStorage.key(i) enumerates them; every         *)
(* handler of the registry is one action, since JavaScript runs a handler  *)
(* to completion.                                                          *)
(***************************************************************************)
EXTENDS Integers, Sequences, FiniteSets, TLC

VARIABLES
    store,       \* store[p]: localStorage of storage partition p, in key(i) order
    part,        \* part[c]: the storage partition context c runs on
    now,         \* Date.now()
    nextId,      \* number of stream ids generated so far (ids are 1..nextId)
    nextMsg,     \* number of chat message ids generated so far
    chan,        \* chan[s][r]: BroadcastChannel messages from s not yet handled by r
    reqPending,  \* reqPending[c]: the startup setTimeout of c has not fired yet
    listeners,   \* listeners[c][event]: the callbacks registered in context c
    last,        \* the last call: context, operation, arguments and result
    pre,         \* the localStorage of the caller's partition before the last call
    emitted,     \* the events the last call emitted, in order
    calls,       \* the callbacks the last call invoked, in order
    hist,        \* hist[id]: every chat message appended for stream id, in order
    ended,       \* the <<context, id>> pairs for which endStream has returned
    run,         \* run[c]: the method context c is inside, between two storage calls
    chain        \* the PandaPiStreaming contract: its state, the state before the
                 \* last transaction, and that transaction

vars == <<store, part, now, nextId, nextMsg, chan, reqPending, listeners,
          last, pre, emitted, calls, hist, ended, run, chain>>

----------------------------------------------------------------------------
(* Bounds of the model *)

NumCtx == 3          \* browser contexts (tabs, windows)
Tabs == 2            \* contexts open on the shared storage in Spec
MaxStreams == 2      \* stream ids the generator hands out
MaxTicks == 1        \* clock steps
ScanIds == 2         \* stream ids in the storage states the scan is applied to
MaxIndexLen == 2     \* entries of the global index in those storage states
ViewStreams == 1     \* streams created in SpecView, SpecHub and Spec
MaxMsgs == 2         \* join and leave messages appended in SpecView
PreFill == 98        \* messages already sent to stream 1 when SpecChat starts
MaxAppend == 4       \* messages appended in SpecChat
MaxListeners == 2    \* callbacks registered in SpecHub
MaxQueue == 1        \* broadcast messages waiting between two contexts
HubMsgs == 1         \* messages appended in SpecHub
SubCap == 3          \* callbacks registered for the event in SpecEmit
WordMax == 1048575   \* the largest value of a uint of the contract in SpecChain
ChainStreams == 1    \* streams created on the contract
ChainModerators == 1 \* moderators created on the contract
ChainTime == 1       \* seconds that pass on the chain

Ctx == 1..NumCtx
Part == 1..NumCtx
StreamIds == 1..(MaxStreams + 1)

(* Program constants *)

maxAge == 24 * 60 * 60 * 1000
ChatCap == 100
T0 == maxAge         \* the clock at the start: late enough for a 24h old startTime

Undefined == "undefined"

----------------------------------------------------------------------------
(* localStorage keys and JSON values *)

StreamKey(id) == [t |-> "stream", id |-> id]
GlobalKey == [t |-> "global", id |-> 0]
ChatKey(id) == [t |-> "chat", id |-> id]

\* JSON.stringify of a stream record, of a list of records, of a transcript.
\* A stored value is what JSON.parse gives back, or undecodable text (bad).
StringifyStream(r) == [bad |-> FALSE, recs |-> <<r>>, msgs |-> <<>>]
StringifyStreams(l) == [bad |-> FALSE, recs |-> l, msgs |-> <<>>]
StringifyMessages(m) == [bad |-> FALSE, recs |-> <<>>, msgs |-> m]

\* The positions of key k in storage ls (none or one).
PosOf(ls, k) == {i \in 1..Len(ls) : ls[i].k = k}
HasItem(ls, k) == PosOf(ls, k) # {}
getItem(ls, k) == ls[CHOOSE i \in PosOf(ls, k) : TRUE].v

\* removeItem: the later keys move down by one.
removeItem(ls, k) ==
    IF HasItem(ls, k)
    THEN LET i == CHOOSE j \in PosOf(ls, k) : TRUE
         IN  [j \in 1..(Len(ls) - 1) |-> IF j < i THEN ls[j] ELSE ls[j + 1]]
    ELSE ls

\* setItem: an existing key keeps its place; a new key lands at a place the
\* browser chooses (h, cut to the length).
setItem(ls, k, v, h) ==
    IF HasItem(ls, k)
    THEN [j \in 1..Len(ls) |-> IF ls[j].k = k THEN [k |-> k, v |-> v] ELSE ls[j]]
    ELSE LET p == IF h > Len(ls) + 1 THEN Len(ls) + 1 ELSE h
         IN  [j \in 1..(Len(ls) + 1) |->
                 IF j < p THEN ls[j]
                 ELSE IF j = p THEN [k |-> k, v |-> v]
                 ELSE ls[j - 1]]

\* Data of the origin that is not the registry's.  While it is stored it takes
\* up what is left of the quota: setItem throws QuotaExceededError.
FillerKey == [t |-> "other", id |-> 0]
Full(ls) == HasItem(ls, FillerKey)

\* JavaScript truthiness of a stream id (a non-empty string).
Truthy(id) == id # 0

----------------------------------------------------------------------------
(* getAllStreamsFromStorage *)

\* Method 1 without the verification against the individual record: a live,
\* fresh index entry is taken as it stands.
ScanIndexEntry_Unverified(st, e, t) ==
    IF e.isLive = TRUE /\ Truthy(e.id) /\ e.id \notin st.ids /\ t - e.startTime < maxAge
    THEN [st EXCEPT !.streams = Append(@, e), !.ids = @ \cup {e.id}]
    ELSE IF t - e.startTime >= maxAge
         THEN [st EXCEPT !.ls = removeItem(@, StreamKey(e.id))]
         ELSE st

\* Method 1, the body of parsedStreams.forEach for index entry e at time t.
\* st = [ls, streams, ids]: the storage, the list built so far, the ids seen.
ScanIndexEntry(st, e, t) ==
    LET streamAge == t - e.startTime
        key == StreamKey(e.id)
    IN  IF e.isLive = TRUE /\ Truthy(e.id) /\ e.id \notin st.ids /\ streamAge < maxAge
        THEN IF HasItem(st.ls, key)
             THEN LET v == getItem(st.ls, key)
                  IN  IF v.bad
                      THEN [st EXCEPT !.ls = removeItem(@, key)]
                      ELSE IF v.recs[1].isLive = TRUE
                           THEN [st EXCEPT !.streams = Append(@, v.recs[1]),
                                           !.ids = @ \cup {e.id}]
                           ELSE st
             ELSE st
        ELSE IF streamAge >= maxAge
             THEN [st EXCEPT !.ls = removeItem(@, key)]
             ELSE st

RECURSIVE ScanIndex(_, _, _, _)
ScanIndex(st, entries, i, t) ==
    IF i > Len(entries) THEN st
    ELSE ScanIndex(ScanIndexEntry(st, entries[i], t), entries, i + 1, t)

\* Method 2, the loop for (i = 0; i < localStorage.length; i++): position i
\* (from 1 here) is read from the storage as it is now, removals included.
RECURSIVE ScanKeys(_, _, _)
ScanKeys(st, i, t) ==
    IF i > Len(st.ls) THEN st
    ELSE LET ent == st.ls[i]
         IN  IF ent.k.t # "stream" THEN ScanKeys(st, i + 1, t)
             ELSE IF ent.v.bad
                  THEN ScanKeys([st EXCEPT !.ls = removeItem(@, ent.k)], i + 1, t)
                  ELSE LET stream == ent.v.recs[1]
                           streamAge == t - stream.startTime
                       IN  IF stream.isLive = TRUE /\ Truthy(stream.id)
                              /\ stream.id \notin st.ids /\ streamAge < maxAge
                           THEN ScanKeys([st EXCEPT !.streams = Append(@, stream),
                                                    !.ids = @ \cup {stream.id}],
                                         i + 1, t)
                           ELSE IF ~stream.isLive \/ streamAge >= maxAge
                                THEN ScanKeys([st EXCEPT !.ls = removeItem(@, ent.k)],
                                              i + 1, t)
                                ELSE ScanKeys(st, i + 1, t)

\* streams.filter(s => s.isLive === true)
LiveOnly(streams) == SelectSeq(streams, LAMBDA s : s.isLive = TRUE)

\* The end of the function without the rewrite: the index stays as it was.
RewriteIndex_Keep(st, h) == [ls |-> st.ls, ret |-> LiveOnly(st.streams)]

\* The end of the function for the scan state st: the index is rewritten with
\* the live streams found (h places the index key when the storage had none)
\* and they are returned.  A setItem that throws is caught by the outer try.
RewriteIndex(st, h) ==
    [ls |-> IF Full(st.ls) THEN st.ls
            ELSE setItem(st.ls, GlobalKey, StringifyStreams(LiveOnly(st.streams)), h),
     ret |-> LiveOnly(st.streams)]

\* The whole function at time t: [ls |-> the storage it leaves, ret |-> the list
\* it returns].
getAllStreamsFromStorage(ls, t, h) ==
    LET st0 == [ls |-> ls, streams |-> <<>>, ids |-> {}]
    IN  RewriteIndex(ScanKeys(IF HasItem(ls, GlobalKey) /\ ~getItem(ls, GlobalKey).bad
                              THEN ScanIndex(st0, getItem(ls, GlobalKey).recs, 1, t)
                              ELSE st0,
                              1, t),
                     h)

----------------------------------------------------------------------------
(* The registry's methods.  A method runs on an execution record             *)
(* x = [ls, ev, cl, out, app, threw]: the storage, the events emitted so far, *)
(* the callbacks invoked so far, the broadcast messages posted so far, the   *)
(* chat messages appended so far, and whether an exception is propagating.   *)

Events == {"streamCreated", "streamUpdated", "streamEnded", "streamsUpdated",
           "newMessage", "viewerJoined", "viewerLeft"}

\* The callbacks page controllers register: callback 1 throws when invoked.
Callbacks == {1, 2}
Throws(cb) == cb = 1

Exec(ls) == [ls |-> ls, ev |-> <<>>, cl |-> <<>>, out |-> <<>>, app |-> <<>>,
             threw |-> FALSE]

\* The same loop without the try/catch: the first throw ends it and propagates.
RECURSIVE InvokeUntilThrow(_, _, _, _)
InvokeUntilThrow(x, cbs, i, event) ==
    IF i > Len(cbs) THEN x
    ELSE LET x1 == [x EXCEPT !.cl = Append(@, [cb |-> cbs[i], ev |-> event])]
         IN  IF Throws(cbs[i]) THEN [x1 EXCEPT !.threw = TRUE]
             ELSE InvokeUntilThrow(x1, cbs, i + 1, event)

\* listeners.forEach with try/catch around each: every callback of cbs from
\* position i on is invoked, a throw is caught.
RECURSIVE InvokeAll(_, _, _, _)
InvokeAll(x, cbs, i, event) ==
    IF i > Len(cbs) THEN x
    ELSE InvokeAll([x EXCEPT !.cl = Append(@, [cb |-> cbs[i], ev |-> event])],
                   cbs, i + 1, event)

\* triggerListeners(event, data) with L the context's listener map; the payload
\* is recorded as the stream id and/or the list of streams it carries.
triggerListeners(x, L, event, id, streams) ==
    InvokeAll([x EXCEPT !.ev = Append(@, [ev |-> event, id |-> id, streams |-> streams])],
              L[event], 1, event)

\* broadcastStreamEvent(type, data) of context c: the channel exists while the
\* context is open; postMessage does not throw.
broadcastStreamEvent(x, c, type, streams, streamId) ==
    [x EXCEPT !.out = Append(@, [type |-> type, streams |-> streams,
                                 streamId |-> streamId, windowId |-> c])]

\* storeStream without the index update: only the individual key is written.
storeStream_NoIndex(ls, stream, h1, h2) ==
    setItem(ls, StreamKey(stream.id), StringifyStream(stream), h1)

\* storeStream(stream), all of it in a try whose catch logs: the first setItem
\* throws when the storage is full.  h1 and h2 place the individual key and the index key
\* when they are new.
storeStream(ls, stream, h1, h2) ==
    IF Full(ls) THEN ls ELSE
    LET ls1 == setItem(ls, StreamKey(stream.id), StringifyStream(stream), h1)
        globalStreams == IF HasItem(ls1, GlobalKey) /\ ~getItem(ls1, GlobalKey).bad
                         THEN getItem(ls1, GlobalKey).recs
                         ELSE <<>>
        others == SelectSeq(globalStreams, LAMBDA s : s.id # stream.id)
        updated == IF stream.isLive THEN Append(others, stream) ELSE others
    IN  setItem(ls1, GlobalKey, StringifyStreams(updated), h2)

\* {...stream, ...updates, lastUpdate: Date.now()}: updates is a record holding
\* the fields to replace.
Field(stream, updates, f) == IF f \in DOMAIN updates THEN updates[f] ELSE stream[f]
Merge(stream, updates, t) ==
    [id |-> Field(stream, updates, "id"),
     title |-> Field(stream, updates, "title"),
     isLive |-> Field(stream, updates, "isLive"),
     viewerCount |-> Field(stream, updates, "viewerCount"),
     startTime |-> Field(stream, updates, "startTime"),
     lastUpdate |-> t]

\* The end of a try block whose catch returns false, for the execution x that
\* ran in it: [x |-> the execution, ok |-> the result].
Caught(x) ==
    IF x.threw THEN [x |-> [x EXCEPT !.threw = FALSE], ok |-> FALSE]
    ELSE [x |-> x, ok |-> TRUE]

\* A broadcast that follows a triggerListeners: skipped when that threw.
ThenBroadcast(x, c, type, streams, streamId) ==
    IF x.threw THEN x ELSE broadcastStreamEvent(x, c, type, streams, streamId)

\* An updateStream that creates the record when there is none to update.
updateStream_Upsert(x, L, streamId, updates, t, h1, h2) ==
    LET stream == IF HasItem(x.ls, StreamKey(streamId))
                     /\ ~getItem(x.ls, StreamKey(streamId)).bad
                  THEN getItem(x.ls, StreamKey(streamId)).recs[1]
                  ELSE [id |-> streamId, title |-> "", isLive |-> FALSE, viewerCount |-> 0,
                        startTime |-> t, lastUpdate |-> t]
        updatedStream == Merge(stream, updates, t)
    IN  Caught(triggerListeners([x EXCEPT !.ls = storeStream(@, updatedStream, h1, h2)],
                                L, "streamUpdated", updatedStream.id, <<updatedStream>>))

\* An updateStream that writes the merged record back under the key it read.
updateStream_InPlace(x, L, streamId, updates, t, h1, h2) ==
    IF ~HasItem(x.ls, StreamKey(streamId)) THEN [x |-> x, ok |-> FALSE]
    ELSE IF getItem(x.ls, StreamKey(streamId)).bad THEN [x |-> x, ok |-> FALSE]
    ELSE LET stream == getItem(x.ls, StreamKey(streamId)).recs[1]
             updatedStream == Merge(stream, updates, t)
         IN  Caught(triggerListeners(
                        [x EXCEPT !.ls = IF Full(@) THEN @
                                         ELSE setItem(@, StreamKey(streamId),
                                                      StringifyStream(updatedStream), h1)],
                        L, "streamUpdated", updatedStream.id, <<updatedStream>>))

\* updateStream(streamId, updates) at time t: [x |-> ..., ok |-> its result].
\* Everything is inside its try: a throw is caught and the result is false.
updateStream(x, L, streamId, updates, t, h1, h2) ==
    IF ~HasItem(x.ls, StreamKey(streamId)) THEN [x |-> x, ok |-> FALSE]
    ELSE IF getItem(x.ls, StreamKey(streamId)).bad THEN [x |-> x, ok |-> FALSE]
    ELSE LET stream == getItem(x.ls, StreamKey(streamId)).recs[1]
             updatedStream == Merge(stream, updates, t)
         IN  Caught(triggerListeners([x EXCEPT !.ls = storeStream(@, updatedStream, h1, h2)],
                                     L, "streamUpdated", updatedStream.id, <<updatedStream>>))

\* createStream(streamData) of context c at time t with the generated id.
\* It has no try of its own.
createStream(x, L, c, streamData, id, t, h1, h2) ==
    LET stream == [id |-> id,
                   title |-> streamData.title,
                   isLive |-> streamData.isLive,
                   viewerCount |-> streamData.viewerCount,
                   startTime |-> streamData.startTime,
                   lastUpdate |-> t]
    IN  ThenBroadcast(triggerListeners([x EXCEPT !.ls = storeStream(@, stream, h1, h2)],
                                       L, "streamCreated", id, <<stream>>),
                      c, "streamCreated", <<stream>>, id)

\* An endStream that empties the index instead of filtering it.
EndCleanup_All(ls, streamId, h) ==
    removeItem(removeItem(IF HasItem(ls, GlobalKey) /\ ~getItem(ls, GlobalKey).bad
                             /\ ~Full(ls)
                          THEN setItem(ls, GlobalKey, StringifyStreams(<<>>), h)
                          ELSE ls,
                          StreamKey(streamId)),
               ChatKey(streamId))

\* endStream after its updateStream left storage ls: the id leaves the index,
\* the stream key and the chat key are removed.
EndCleanup(ls, streamId, h) ==
    removeItem(removeItem(IF HasItem(ls, GlobalKey) /\ ~getItem(ls, GlobalKey).bad
                             /\ ~Full(ls)
                          THEN setItem(ls, GlobalKey,
                                       StringifyStreams(SelectSeq(getItem(ls, GlobalKey).recs,
                                                                  LAMBDA s : s.id # streamId)), h)
                          ELSE ls,
                          StreamKey(streamId)),
               ChatKey(streamId))

\* endStream(streamId) of context c: all of it is inside its try.
endStream(x, L, c, streamId, t, h1, h2) ==
    Caught(ThenBroadcast(
                triggerListeners(
                    [updateStream(x, L, streamId, [isLive |-> FALSE], t, h1, h2).x
                        EXCEPT !.ls = EndCleanup(@, streamId, h2)],
                    L, "streamEnded", streamId, <<>>),
                c, "streamEnded", <<>>, streamId)).x

\* clearAllStreams() of context c: every key that starts with pandapi_ is
\* removed, streamsCleared is broadcast, streamsUpdated is emitted with [].
clearAllStreams(x, L, c) ==
    Caught(triggerListeners(
               broadcastStreamEvent(
                   [x EXCEPT !.ls = SelectSeq(@, LAMBDA e : e.k.t \notin {"stream", "global", "chat"})],
                   c, "streamsCleared", <<>>, 0),
               L, "streamsUpdated", 0, <<>>)).x

\* getChatMessages(streamId): undecodable text gives [].
getChatMessages(ls, streamId) ==
    IF HasItem(ls, ChatKey(streamId)) /\ ~getItem(ls, ChatKey(streamId)).bad
    THEN getItem(ls, ChatKey(streamId)).msgs
    ELSE <<>>

\* A slice that keeps the first n entries instead: array.slice(0, n).
SliceLast_Head(s, n) == IF Len(s) <= n THEN s ELSE SubSeq(s, 1, n)

\* array.slice(-n)
SliceLast(s, n) == IF Len(s) <= n THEN s ELSE SubSeq(s, Len(s) - n + 1, Len(s))

\* [...existingMessages, m].slice(-100), stored under the chat key.
AppendMessage(ls, streamId, m, h) ==
    setItem(ls, ChatKey(streamId),
            StringifyMessages(SliceLast(Append(getChatMessages(ls, streamId), m), ChatCap)), h)

ChatMessage(mid, streamId, sender, senderAddress, text, t, type) ==
    [id |-> mid, streamId |-> streamId, sender |-> sender,
     senderAddress |-> senderAddress, message |-> text, timestamp |-> t, type |-> type]

\* The execution x appends message m to the transcript of streamId; the
\* setItem throws when the storage is full.
Say(x, streamId, m, h) ==
    IF Full(x.ls) THEN [x EXCEPT !.threw = TRUE]
    ELSE [x EXCEPT !.ls = AppendMessage(@, streamId, m, h), !.app = Append(@, m)]

\* A triggerListeners that is not reached when an exception is propagating.
ThenTrigger(x, L, event, id) ==
    IF x.threw THEN x ELSE triggerListeners(x, L, event, id, <<>>)

\* sendMessage(streamId, sender, message, senderAddress): [x, ok].
sendMessage(x, L, streamId, sender, text, senderAddress, mid, t, h) ==
    LET chatMessage == ChatMessage(mid, streamId, sender, senderAddress, <<text>>, t, "message")
    IN  Caught(ThenTrigger(Say(x, streamId, chatMessage, h), L, "newMessage", streamId))

\* The lookup without the reconciliation: the stored record of streamId,
\* whatever its state.
FindActive_Stored(ls, streamId, t, h) ==
    [ls |-> ls,
     found |-> IF HasItem(ls, StreamKey(streamId)) /\ ~getItem(ls, StreamKey(streamId)).bad
               THEN getItem(ls, StreamKey(streamId)).recs
               ELSE <<>>]

\* array.find(s => s.id === streamId) on the result g of getAllActiveStreams:
\* the storage the call left and the matches, of which the first is the one found.
FindIn(g, streamId) ==
    [ls |-> g.ls, found |-> SelectSeq(g.ret, LAMBDA s : s.id = streamId)]

\* this.getAllActiveStreams().find(s => s.id === streamId)
FindActive(ls, streamId, t, h) ==
    FindIn(getAllStreamsFromStorage(ls, t, h), streamId)

\* The viewer count without the floor, and without the adjustment.
NewCount_NoFloor(viewerCount, delta) == viewerCount + delta
NewCount_Same(viewerCount, delta) == viewerCount

\* stream.viewerCount + 1 and Math.max(0, stream.viewerCount - 1)
NewCount(viewerCount, delta) ==
    IF delta > 0 THEN viewerCount + 1
    ELSE IF viewerCount - 1 > 0 THEN viewerCount - 1 ELSE 0

\* joinStream and leaveStream after their updateStream returned u: the message
\* m is appended to the transcript, the viewer event and newMessage are
\* emitted, the result is true.
Announce(u, L, streamId, m, event, h) ==
    LET Done(x) == [x |-> x, ok |-> ~x.threw]
    IN  Done(ThenTrigger(ThenTrigger(Say(u.x, streamId, m, h), L, event, streamId),
                         L, "newMessage", streamId))

\* joinStream and leaveStream after their lookup returned g.
JoinOrLeaveFound(x, L, streamId, viewerName, delta, mid, t, h1, h2, g) ==
    IF g.found = <<>> THEN [x |-> [x EXCEPT !.ls = g.ls], ok |-> FALSE]
    ELSE LET stream == g.found[1]
             m == ChatMessage(mid, streamId, "System", Undefined,
                              <<viewerName, IF delta > 0 THEN " joined the stream"
                                            ELSE " left the stream">>,
                              t, IF delta > 0 THEN "join" ELSE "leave")
         IN  Announce(updateStream([x EXCEPT !.ls = g.ls], L, streamId,
                                   [viewerCount |-> NewCount(stream.viewerCount, delta)],
                                   t, h1, h2),
                      L, streamId, m, IF delta > 0 THEN "viewerJoined" ELSE "viewerLeft", h2)

\* joinStream and leaveStream share their shape: the new viewer count, the
\* message text and type, and the event differ.  They have no try.
JoinOrLeave(x, L, streamId, viewerName, delta, mid, t, h1, h2) ==
    JoinOrLeaveFound(x, L, streamId, viewerName, delta, mid, t, h1, h2,
                     FindActive(x.ls, streamId, t, h1))

joinStream(x, L, streamId, viewerName, mid, t, h1, h2) ==
    JoinOrLeave(x, L, streamId, viewerName, 1, mid, t, h1, h2)

leaveStream(x, L, streamId, viewerName, mid, t, h1, h2) ==
    JoinOrLeave(x, L, streamId, viewerName, -1, mid, t, h1, h2)

----------------------------------------------------------------------------
(* Timer and broadcast handlers *)

\* syncStreams(): the interval timer, the focus handler and the delayed syncs
\* that createStream, endStream and the storage listener schedule all run it.
Notify(x, L, g) ==
    Caught(triggerListeners([x EXCEPT !.ls = g.ls], L, "streamsUpdated", 0, g.ret)).x

syncStreams(x, L, t, h) == Notify(x, L, getAllStreamsFromStorage(x.ls, t, h))

storeStreamFromBroadcast(ls, stream, h1, h2) ==
    IF stream.isLive /\ Truthy(stream.id) /\ ~HasItem(ls, StreamKey(stream.id))
    THEN storeStream(ls, stream, h1, h2)
    ELSE ls

RECURSIVE StoreAllFromBroadcast(_, _, _, _, _)
StoreAllFromBroadcast(ls, streams, i, h1, h2) ==
    IF i > Len(streams) THEN ls
    ELSE StoreAllFromBroadcast(storeStreamFromBroadcast(ls, streams[i], h1, h2),
                               streams, i + 1, h1, h2)

removeStreamFromBroadcast(ls, streamId) ==
    LET ls1 == removeItem(removeItem(ls, StreamKey(streamId)), ChatKey(streamId))
    IN  IF HasItem(ls1, GlobalKey) /\ ~getItem(ls1, GlobalKey).bad /\ ~Full(ls1)
        THEN setItem(ls1, GlobalKey,
                     StringifyStreams(SelectSeq(getItem(ls1, GlobalKey).recs,
                                                LAMBDA s : s.id # streamId)), 1)
        ELSE ls1

\* The BroadcastChannel message handler of context c for message m, by the
\* type of m.
onStreamCreated(x, L, m, t, h1, h2) ==
    syncStreams(triggerListeners(
                    [x EXCEPT !.ls = storeStreamFromBroadcast(@, m.streams[1], h1, h2)],
                    L, "streamCreated", m.streamId, m.streams),
                L, t, h2)

onStreamEnded(x, L, m, t, h) ==
    syncStreams(triggerListeners([x EXCEPT !.ls = removeStreamFromBroadcast(@, m.streamId)],
                                 L, "streamEnded", m.streamId, <<>>),
                L, t, h)

\* The reply to a syncRequest for the result g of getAllStreamsFromStorage.
Reply(x, c, g) ==
    IF Len(g.ret) > 0
    THEN broadcastStreamEvent([x EXCEPT !.ls = g.ls], c, "syncResponse", g.ret, 0)
    ELSE [x EXCEPT !.ls = g.ls]

onSyncRequest(x, c, t, h) == Reply(x, c, getAllStreamsFromStorage(x.ls, t, h))

\* The syncResponse branch with the windowId test turned round: only the
\* context's own responses are applied.
onSyncResponse_Own(x, L, c, m, t, h1, h2) ==
    IF m.windowId = c
    THEN syncStreams([x EXCEPT !.ls = StoreAllFromBroadcast(@, m.streams, 1, h1, h2)],
                     L, t, h2)
    ELSE x

onSyncResponse(x, L, c, m, t, h1, h2) ==
    IF m.windowId # c
    THEN syncStreams([x EXCEPT !.ls = StoreAllFromBroadcast(@, m.streams, 1, h1, h2)],
                     L, t, h2)
    ELSE x

----------------------------------------------------------------------------
(* Actions: one per call of a public method or run of a handler *)

Open(c) == part[c] # 0
Ls(c) == store[part[c]]
\* Where the browser may put a new key: before the first key or after the last.
Places(c) == {1, Len(Ls(c)) + 2}

\* The record of a call: who called what with which stream id and viewer or
\* sender name at what time, its boolean result, the list it returned,
\* whether an exception reached the caller, the stream data it was given (of
\* createStream), the windowId of the message it handled (of a message
\* handler), and the same of the call that came before it.
Call(c, op, id, name, ok, ret, threw) ==
    [ctx |-> c, op |-> op, id |-> id, name |-> name, at |-> now, ok |-> ok,
     ret |-> ret, threw |-> threw, arg |-> <<>>, from |-> 0,
     prev |-> [op |-> last.op, id |-> last.id, at |-> last.at, arg |-> last.arg]]

\* A channel that hands a message to its sender as well.
Post_Echo(ch, c, out) ==
    [s \in Ctx |-> [r \in Ctx |->
        IF s = c /\ Open(r) THEN ch[s][r] \o out
        ELSE ch[s][r]]]

\* postMessage on channels ch: every other open context gets the messages, in
\* order, whatever storage partition it is on.
Post(ch, c, out) ==
    [s \in Ctx |-> [r \in Ctx |->
        IF s = c /\ r # c /\ Open(r) THEN ch[s][r] \o out
        ELSE ch[s][r]]]

\* The state after context c ran a method or a handler to its end x, with ch
\* the channels when it started.  No more than MaxQueue messages wait between
\* two contexts.
CommitOn(ch, c, x, call) ==
    /\ \A s, r \in Ctx : Len(Post(ch, c, x.out)[s][r]) <= MaxQueue
    /\ store' = [store EXCEPT ![part[c]] = x.ls]
    /\ pre' = Ls(c)
    /\ emitted' = x.ev
    /\ calls' = x.cl
    /\ chan' = Post(ch, c, x.out)
    /\ last' = call

Commit(c, x, call) == CommitOn(chan, c, x, call)

\* StreamingContract.createStream(streamData): viewerCount is forced to 0.
CreateStreamWith(c, streamData) ==
    /\ Open(c)
    /\ nextId < MaxStreams
    /\ \E h1 \in Places(c), h2 \in Places(c) :
          LET fullStreamData == [title |-> streamData.title, isLive |-> streamData.isLive,
                                 startTime |-> streamData.startTime, viewerCount |-> 0]
          IN  \E x \in {createStream(Exec(Ls(c)), listeners[c], c, fullStreamData,
                                     nextId + 1, now, h1, h2)} :
              Commit(c, x, [Call(c, "createStream", nextId + 1, "", TRUE, <<>>, x.threw)
                               EXCEPT !.arg = <<fullStreamData>>])
    /\ nextId' = nextId + 1
    /\ UNCHANGED <<part, now, nextMsg, reqPending, listeners, hist, ended, run, chain>>

\* The stream data callers give: live or not, starting now, or 24h ago less
\* 1 ms, or 24h ago.
FacadeCreateStream(c) ==
    \E isLive \in BOOLEAN, startTime \in {now, now - maxAge + 1, now - maxAge} :
        CreateStreamWith(c, [title |-> "a", isLive |-> isLive, startTime |-> startTime])

\* A broadcaster going live now.
GoLive(c) == CreateStreamWith(c, [title |-> "a", isLive |-> TRUE, startTime |-> now])

GetAllActiveStreams(c) ==
    /\ Open(c)
    /\ \E h \in Places(c) :
          \E g \in {getAllStreamsFromStorage(Ls(c), now, h)} :
              Commit(c, Exec(g.ls),
                     Call(c, "getAllActiveStreams", 0, "", TRUE, g.ret, FALSE))
    /\ UNCHANGED <<part, now, nextId, nextMsg, reqPending, listeners, hist, ended, run, chain>>

SyncStreams(c) ==
    /\ Open(c)
    /\ \E h \in Places(c) :
          \E x \in {syncStreams(Exec(Ls(c)), listeners[c], now, h)} :
              Commit(c, x, Call(c, "syncStreams", 0, "", TRUE, <<>>, x.threw))
    /\ UNCHANGED <<part, now, nextId, nextMsg, reqPending, listeners, hist, ended, run, chain>>

EndStream(c, id) ==
    /\ Open(c)
    /\ \E h1 \in Places(c), h2 \in Places(c) :
          \E x \in {endStream(Exec(Ls(c)), listeners[c], c, id, now, h1, h2)} :
              Commit(c, x, Call(c, "endStream", id, "", TRUE, <<>>, x.threw))
    /\ ended' = ended \cup {<<c, id>>}
    /\ UNCHANGED <<part, now, nextId, nextMsg, reqPending, listeners, hist, run, chain>>

\* StreamingContract.updateStream(streamId, updates)
UpdateStream(c, id, updates) ==
    /\ Open(c)
    /\ \E h1 \in Places(c), h2 \in Places(c) :
          \E r \in {updateStream(Exec(Ls(c)), listeners[c], id, updates, now, h1, h2)} :
              Commit(c, r.x, [Call(c, "updateStream", id, "", r.ok, <<>>, r.x.threw)
                                 EXCEPT !.arg = <<updates>>])
    /\ UNCHANGED <<part, now, nextId, nextMsg, reqPending, listeners, hist, ended, run, chain>>

\* The history of appended messages grows by those the execution x appended.
Appended(id, x) == [hist EXCEPT ![id] = @ \o x.app]

SendMessage(c, id, sender) ==
    /\ Open(c)
    /\ \E h \in Places(c) :
          \E r \in {sendMessage(Exec(Ls(c)), listeners[c], id, sender, "hello", Undefined,
                                   nextMsg + 1, now, h)} :
              /\ Commit(c, r.x, Call(c, "sendMessage", id, sender, r.ok, <<>>, r.x.threw))
              /\ hist' = Appended(id, r.x)
              /\ nextMsg' = nextMsg + Len(r.x.app)
    /\ UNCHANGED <<part, now, nextId, reqPending, listeners, ended, run, chain>>

JoinStream(c, id, viewerName) ==
    /\ Open(c)
    /\ \E h1 \in Places(c), h2 \in Places(c) :
          \E r \in {joinStream(Exec(Ls(c)), listeners[c], id, viewerName,
                                  nextMsg + 1, now, h1, h2)} :
              /\ Commit(c, r.x, Call(c, "joinStream", id, viewerName, r.ok, <<>>, r.x.threw))
              /\ hist' = Appended(id, r.x)
              /\ nextMsg' = nextMsg + Len(r.x.app)
    /\ UNCHANGED <<part, now, nextId, reqPending, listeners, ended, run, chain>>

LeaveStream(c, id, viewerName) ==
    /\ Open(c)
    /\ \E h1 \in Places(c), h2 \in Places(c) :
          \E r \in {leaveStream(Exec(Ls(c)), listeners[c], id, viewerName,
                                   nextMsg + 1, now, h1, h2)} :
              /\ Commit(c, r.x, Call(c, "leaveStream", id, viewerName, r.ok, <<>>, r.x.threw))
              /\ hist' = Appended(id, r.x)
              /\ nextMsg' = nextMsg + Len(r.x.app)
    /\ UNCHANGED <<part, now, nextId, reqPending, listeners, ended, run, chain>>

\* StreamingContract.getChatMessages(streamId): the transcript is the result.
GetChatMessages(c, id) ==
    /\ Open(c)
    /\ Commit(c, Exec(Ls(c)),
              Call(c, "getChatMessages", id, "", TRUE, getChatMessages(Ls(c), id), FALSE))
    /\ UNCHANGED <<part, now, nextId, nextMsg, reqPending, listeners, hist, ended, run, chain>>

\* on(event, callback)
On(c, event, cb) ==
    /\ Open(c)
    /\ listeners' = [listeners EXCEPT ![c][event] = Append(@, cb)]
    /\ last' = Call(c, "on", 0, event, TRUE, <<>>, FALSE)
    /\ pre' = Ls(c)
    /\ emitted' = <<>>
    /\ calls' = <<>>
    /\ UNCHANGED <<store, part, now, nextId, nextMsg, chan, reqPending, hist, ended, run, chain>>

\* The startup setTimeout of context c fires: it posts its syncRequest.
PostSyncRequest(c) ==
    /\ Open(c)
    /\ reqPending[c]
    /\ \E x \in {broadcastStreamEvent(Exec(Ls(c)), c, "syncRequest", <<>>, 0)} :
          Commit(c, x, Call(c, "syncRequest", 0, "", TRUE, <<>>, FALSE))
    /\ reqPending' = [reqPending EXCEPT ![c] = FALSE]
    /\ UNCHANGED <<part, now, nextId, nextMsg, listeners, hist, ended, run, chain>>

\* Context c has a message of the type, posted by context s, to handle next.
Waiting(c, s, type) ==
    /\ Open(c)
    /\ chan[s][c] # <<>>
    /\ Head(chan[s][c]).type = type

\* The channels once context c took its next message from context s.
Taken(c, s) == [chan EXCEPT ![s][c] = Tail(@)]

\* The record of the run of the message handler of context c for that message.
Handled(c, s, op, id, threw) ==
    [Call(c, op, id, "", TRUE, <<>>, threw) EXCEPT !.from = Head(chan[s][c]).windowId]

RecvStreamCreated(c, s) ==
    /\ Waiting(c, s, "streamCreated")
    /\ \E h1 \in Places(c), h2 \in Places(c) :
          \E x \in {onStreamCreated(Exec(Ls(c)), listeners[c], Head(chan[s][c]), now, h1, h2)} :
              CommitOn(Taken(c, s), c, x,
                       Handled(c, s, "onStreamCreated", Head(chan[s][c]).streamId, x.threw))
    /\ UNCHANGED <<part, now, nextId, nextMsg, reqPending, listeners, hist, ended, run, chain>>

RecvStreamEnded(c, s) ==
    /\ Waiting(c, s, "streamEnded")
    /\ \E h \in Places(c) :
          \E x \in {onStreamEnded(Exec(Ls(c)), listeners[c], Head(chan[s][c]), now, h)} :
              CommitOn(Taken(c, s), c, x,
                       Handled(c, s, "onStreamEnded", Head(chan[s][c]).streamId, x.threw))
    /\ UNCHANGED <<part, now, nextId, nextMsg, reqPending, listeners, hist, ended, run, chain>>

RecvSyncRequest(c, s) ==
    /\ Waiting(c, s, "syncRequest")
    /\ \E h \in Places(c) :
          \E x \in {onSyncRequest(Exec(Ls(c)), c, now, h)} :
              CommitOn(Taken(c, s), c, x,
                       Handled(c, s, "onSyncRequest", 0, x.threw))
    /\ UNCHANGED <<part, now, nextId, nextMsg, reqPending, listeners, hist, ended, run, chain>>

RecvSyncResponse(c, s) ==
    /\ Waiting(c, s, "syncResponse")
    /\ \E h1 \in Places(c), h2 \in Places(c) :
          \E x \in {onSyncResponse(Exec(Ls(c)), listeners[c], c, Head(chan[s][c]), now, h1, h2)} :
              CommitOn(Taken(c, s), c, x,
                       Handled(c, s, "onSyncResponse", 0, x.threw))
    /\ UNCHANGED <<part, now, nextId, nextMsg, reqPending, listeners, hist, ended, run, chain>>

\* A message of a type the handler has no branch for (streamsCleared): it is
\* logged and nothing else is done.
RecvStreamsCleared(c, s) ==
    /\ Waiting(c, s, "streamsCleared")
    /\ CommitOn(Taken(c, s), c, Exec(Ls(c)), Handled(c, s, "onStreamsCleared", 0, FALSE))
    /\ UNCHANGED <<part, now, nextId, nextMsg, reqPending, listeners, hist, ended, run, chain>>

ClearAllStreams(c) ==
    /\ Open(c)
    /\ \E x \in {clearAllStreams(Exec(Ls(c)), listeners[c], c)} :
          Commit(c, x, Call(c, "clearAllStreams", 0, "", TRUE, <<>>, x.threw))
    /\ UNCHANGED <<part, now, nextId, nextMsg, reqPending, listeners, hist, ended, run, chain>>

\* Another script of the origin stores data that uses up the quota.
FillUp(c) ==
    /\ Open(c)
    /\ ~Full(Ls(c))
    /\ store' = [store EXCEPT ![part[c]] = Append(@, [k |-> FillerKey, v |-> StringifyStreams(<<>>)])]
    /\ UNCHANGED <<part, now, nextId, nextMsg, chan, reqPending, listeners,
                   last, pre, emitted, calls, hist, ended, run, chain>>

\* Date.now() moves on.
Tick ==
    /\ now < T0 + MaxTicks
    /\ now' = now + 1
    /\ UNCHANGED <<store, part, nextId, nextMsg, chan, reqPending, listeners,
                   last, pre, emitted, calls, hist, ended, run, chain>>

----------------------------------------------------------------------------
(* Helpers of the properties *)

InSeq(e, s) == \E i \in 1..Len(s) : s[i] = e
IdsOf(streams) == {streams[i].id : i \in 1..Len(streams)}

\* The individually keyed stream records of storage ls.
RecordsOf(ls) == {ls[i].v.recs[1] : i \in {j \in 1..Len(ls) : ls[j].k.t = "stream" /\ ~ls[j].v.bad}}
IndexOf(ls) == IF HasItem(ls, GlobalKey) /\ ~getItem(ls, GlobalKey).bad
               THEN getItem(ls, GlobalKey).recs ELSE <<>>

\* The stored record of stream id in storage ls, as a list: empty when there
\* is none.
RecordOf(ls, id) ==
    IF HasItem(ls, StreamKey(id)) /\ ~getItem(ls, StreamKey(id)).bad
    THEN getItem(ls, StreamKey(id)).recs
    ELSE <<>>

\* An active stream: isLive and less than 24h old at time t.
Active(r, t) == r.isLive = TRUE /\ t - r.startTime < maxAge

NoCall == [ctx |-> 1, op |-> "none", id |-> 0, name |-> "", at |-> T0, ok |-> TRUE,
           ret |-> <<>>, threw |-> FALSE, arg |-> <<>>, from |-> 0,
           prev |-> [op |-> "none", id |-> 0, at |-> T0, arg |-> <<>>]]
\* No context is inside a method.
Idle == [op |-> "none", pc |-> "done", id |-> 0, count |-> 0, stream |-> <<>>,
         list |-> <<>>, ok |-> FALSE]
NoRun == [c \in Ctx |-> Idle]
EmptyChan == [s \in Ctx |-> [r \in Ctx |-> <<>>]]
NoListeners == [c \in Ctx |-> [e \in Events |-> <<>>]]
OneContext == [c \in Ctx |-> IF c = 1 THEN 1 ELSE 0]

----------------------------------------------------------------------------
(* The PandaPiStreaming contract *)

\* The accounts that send transactions; account 1 deploys the contract and is
\* its owner.  address(0) sends nothing.
Accounts == 1..2
ZeroAddress == 0
Deployer == 1

BASIS_POINTS == 10000

\* uint256 arithmetic is checked: a result that does not fit reverts.
Fits(n) == n >= 0 /\ n <= WordMax

\* What the mappings hold for a key that was never written.
NoUser == [isRegistered |-> FALSE, totalStreams |-> 0, totalEarnings |-> 0, totalSpent |-> 0]
NoStream == [streamer |-> ZeroAddress, startTime |-> 0, endTime |-> 0, totalEarnings |-> 0,
             peakViewers |-> 0, isActive |-> FALSE, moderatorIds |-> <<>>]
NoModerator == [creator |-> ZeroAddress, pricePerHour |-> 0, totalUsage |-> 0,
                totalEarnings |-> 0, isActive |-> FALSE]
NoUsage == [moderatorId |-> 0, streamId |-> 0, startTime |-> 0, endTime |-> 0, cost |-> 0,
            isPaid |-> FALSE]

\* streams[id], moderators[id], moderatorUsages[id] of contract state s: the
\* ids handed out are 1..next-1, kept as the positions of a list.
StreamAt(s, id) == IF id \in 1..Len(s.streams) THEN s.streams[id] ELSE NoStream
ModeratorAt(s, id) == IF id \in 1..Len(s.moderators) THEN s.moderators[id] ELSE NoModerator
UsageAt(s, id) == IF id \in 1..Len(s.moderatorUsages) THEN s.moderatorUsages[id] ELSE NoUsage
nextStreamId(s) == Len(s.streams) + 1
nextModeratorId(s) == Len(s.moderators) + 1
nextUsageId(s) == Len(s.moderatorUsages) + 1

\* The contract after its constructor ran with _feeRecipient; balance is the
\* ether it holds and timestamp is block.timestamp.
Deployed(_feeRecipient) ==
    [users |-> [a \in Accounts |-> NoUser],
     streams |-> <<>>,
     moderators |-> <<>>,
     moderatorUsages |-> <<>>,
     userBalances |-> [a \in Accounts \cup {ZeroAddress} |-> 0],
     platformFeePercentage |-> 250,
     feeRecipient |-> _feeRecipient,
     owner |-> Deployer,
     balance |-> 0,
     timestamp |-> 0]

\* The outcome of a transaction: it reverted, or it left state s.
Revert == [ok |-> FALSE, s |-> <<>>]
Done(s) == [ok |-> TRUE, s |-> s]

registerUser(s, sender, _profileHash) ==
    IF s.users[sender].isRegistered THEN Revert
    ELSE IF _profileHash = "" THEN Revert
    ELSE Done([s EXCEPT !.users[sender] = [NoUser EXCEPT !.isRegistered = TRUE]])

PandaPiStreaming_createStream(s, sender, _title, _category, _moderatorIds) ==
    IF ~s.users[sender].isRegistered THEN Revert
    ELSE IF _title = "" \/ _category = "" THEN Revert
    ELSE IF ~Fits(s.users[sender].totalStreams + 1) THEN Revert
    ELSE Done([s EXCEPT !.streams = Append(@, [NoStream EXCEPT !.streamer = sender,
                                                              !.startTime = s.timestamp,
                                                              !.isActive = TRUE,
                                                              !.moderatorIds = _moderatorIds]),
                        !.users[sender].totalStreams = @ + 1])

createModerator(s, sender, _moderatorType, _pricePerHour) ==
    IF ~s.users[sender].isRegistered THEN Revert
    ELSE IF _moderatorType = "" THEN Revert
    ELSE IF ~(_pricePerHour > 0) THEN Revert
    ELSE Done([s EXCEPT !.moderators = Append(@, [NoModerator EXCEPT !.creator = sender,
                                                                    !.pricePerHour = _pricePerHour,
                                                                    !.isActive = TRUE])])

\* The loop of endStream over stream.moderatorIds from position i on: acc
\* holds totalCost and the usages recorded so far, and whether the arithmetic
\* fitted.
RECURSIVE CostLoop(_, _, _, _, _)
CostLoop(s, _streamId, duration, i, acc) ==
    IF i > Len(StreamAt(s, _streamId).moderatorIds) \/ ~acc.ok THEN acc
    ELSE LET moderatorId == StreamAt(s, _streamId).moderatorIds[i]
             moderator == ModeratorAt(s, moderatorId)
         IN  IF ~moderator.isActive THEN CostLoop(s, _streamId, duration, i + 1, acc)
             ELSE IF ~Fits(moderator.pricePerHour * duration)
                     \/ ~Fits(acc.totalCost + (moderator.pricePerHour * duration) \div 3600)
             THEN [acc EXCEPT !.ok = FALSE]
             ELSE CostLoop(s, _streamId, duration, i + 1,
                           [acc EXCEPT
                               !.totalCost = @ + (moderator.pricePerHour * duration) \div 3600,
                               !.usages = Append(@, [moderatorId |-> moderatorId,
                                                     streamId |-> _streamId,
                                                     startTime |-> StreamAt(s, _streamId).startTime,
                                                     endTime |-> s.timestamp,
                                                     cost |-> (moderator.pricePerHour * duration)
                                                                 \div 3600,
                                                     isPaid |-> FALSE])])

\* The end of endStream, with acc what its loop computed.
EndWith(s, sender, _streamId, _peakViewers, acc) ==
    IF ~acc.ok THEN Revert
    ELSE IF ~Fits(s.users[sender].totalSpent + acc.totalCost) THEN Revert
    ELSE Done([s EXCEPT !.streams[_streamId] = [@ EXCEPT !.endTime = s.timestamp,
                                                         !.isActive = FALSE,
                                                         !.peakViewers = _peakViewers,
                                                         !.totalEarnings = acc.totalCost],
                        !.moderatorUsages = @ \o acc.usages,
                        !.users[sender].totalSpent = @ + acc.totalCost])

\* An endStream that any registered account may call for any stream.
PandaPiStreaming_endStream_Anyone(s, sender, _streamId, _peakViewers) ==
    IF ~(_streamId > 0 /\ _streamId < nextStreamId(s)) THEN Revert
    ELSE IF ~s.users[sender].isRegistered THEN Revert
    ELSE IF ~StreamAt(s, _streamId).isActive THEN Revert
    ELSE EndWith(s, sender, _streamId, _peakViewers,
                 CostLoop(s, _streamId, s.timestamp - StreamAt(s, _streamId).startTime, 1,
                          [ok |-> TRUE, totalCost |-> 0, usages |-> <<>>]))

PandaPiStreaming_endStream(s, sender, _streamId, _peakViewers) ==
    IF ~(_streamId > 0 /\ _streamId < nextStreamId(s)) THEN Revert
    ELSE IF ~s.users[sender].isRegistered THEN Revert
    ELSE IF StreamAt(s, _streamId).streamer # sender THEN Revert
    ELSE IF ~StreamAt(s, _streamId).isActive THEN Revert
    ELSE EndWith(s, sender, _streamId, _peakViewers,
                 CostLoop(s, _streamId, s.timestamp - StreamAt(s, _streamId).startTime, 1,
                          [ok |-> TRUE, totalCost |-> 0, usages |-> <<>>]))

\* The body of payModeratorUsage after its require statements, for a usage
\* that was recorded: the value sent is in the contract's balance while it
\* runs, and what exceeds the cost is sent back.
Pay(s, sender, value, _usageId) ==
    LET usage == UsageAt(s, _usageId)
        moderator == ModeratorAt(s, usage.moderatorId)
        platformFee == (usage.cost * s.platformFeePercentage) \div BASIS_POINTS
        creatorEarnings == usage.cost - platformFee
        credited == [s.userBalances EXCEPT ![moderator.creator] = @ + creatorEarnings]
    IN  IF ~Fits(moderator.totalUsage + (usage.endTime - usage.startTime))
           \/ ~Fits(moderator.totalEarnings + usage.cost)
           \/ ~Fits(usage.cost * s.platformFeePercentage)
           \/ ~Fits(credited[moderator.creator])
           \/ ~Fits(credited[s.feeRecipient] + platformFee)
           \/ ~Fits(s.balance + value)
        THEN Revert
        ELSE Done([s EXCEPT !.moderatorUsages[_usageId].isPaid = TRUE,
                            !.moderators[usage.moderatorId] =
                                [@ EXCEPT !.totalUsage = @ + (usage.endTime - usage.startTime),
                                          !.totalEarnings = @ + usage.cost],
                            !.userBalances = [credited EXCEPT ![s.feeRecipient] = @ + platformFee],
                            !.balance = (@ + value) - (IF value > usage.cost
                                                       THEN value - usage.cost ELSE 0)])

\* A payModeratorUsage without the isPaid check.
payModeratorUsage_Again(s, sender, value, _usageId) ==
    IF ~(value >= UsageAt(s, _usageId).cost) THEN Revert
    ELSE IF StreamAt(s, UsageAt(s, _usageId).streamId).streamer # sender THEN Revert
    ELSE Pay(s, sender, value, _usageId)

\* payModeratorUsage(_usageId) with msg.value = value.  The streamer of a
\* usage that was never recorded is address(0), which is no sender.
payModeratorUsage(s, sender, value, _usageId) ==
    IF UsageAt(s, _usageId).isPaid THEN Revert
    ELSE IF ~(value >= UsageAt(s, _usageId).cost) THEN Revert
    ELSE IF StreamAt(s, UsageAt(s, _usageId).streamId).streamer # sender THEN Revert
    ELSE Pay(s, sender, value, _usageId)

withdrawEarnings(s, sender) ==
    IF ~(s.userBalances[sender] > 0) THEN Revert
    ELSE IF ~Fits(s.users[sender].totalEarnings + s.userBalances[sender]) THEN Revert
    \* transfer reverts when the contract holds less than the amount
    ELSE IF s.balance < s.userBalances[sender] THEN Revert
    ELSE Done([s EXCEPT !.userBalances[sender] = 0,
                        !.users[sender].totalEarnings = @ + s.userBalances[sender],
                        !.balance = @ - s.userBalances[sender]])

updatePlatformFee(s, sender, _newFeePercentage) ==
    IF sender # s.owner THEN Revert
    ELSE IF ~(_newFeePercentage <= 1000) THEN Revert
    ELSE Done([s EXCEPT !.platformFeePercentage = _newFeePercentage])

updateFeeRecipient(s, sender, _newFeeRecipient) ==
    IF sender # s.owner THEN Revert
    ELSE IF _newFeeRecipient = ZeroAddress THEN Revert
    ELSE Done([s EXCEPT !.feeRecipient = _newFeeRecipient])

emergencyWithdraw(s, sender) ==
    IF sender # s.owner THEN Revert
    ELSE Done([s EXCEPT !.balance = 0])

\* No transaction was sent yet.
NoTx == [op |-> "none", sender |-> ZeroAddress, id |-> 0, value |-> 0, ok |-> TRUE]
NoChain == [s |-> Deployed(Deployer), was |-> Deployed(Deployer), tx |-> NoTx]

----------------------------------------------------------------------------
(* SpecScan: getAllActiveStreams applied to every storage state *)

\* The storage states: any subset of the stream keys and the index key in any
\* key order; a live or ended, fresh or 24h old record under each stream key;
\* an index of entries with distinct ids, each live or ended, fresh or old,
\* whatever the individual record of its id says.
ScanRecs(id) ==
    {[id |-> id, title |-> "a", isLive |-> l, viewerCount |-> 0,
      startTime |-> st, lastUpdate |-> st] :
        l \in BOOLEAN, st \in {T0 - maxAge, T0 - maxAge + 1}}
ScanKeySet == {StreamKey(i) : i \in 1..ScanIds} \cup {GlobalKey}
ScanOrders ==
    {o \in UNION {[1..n -> ScanKeySet] : n \in 0..(ScanIds + 1)} :
        \A i, j \in 1..Len(o) : i # j => o[i] # o[j]}
ScanIndexes ==
    {x \in UNION {[1..n -> UNION {ScanRecs(i) : i \in 1..ScanIds}] : n \in 0..MaxIndexLen} :
        \A i, j \in 1..Len(x) : i # j => x[i].id # x[j].id}

InitScan ==
    /\ \E o \in ScanOrders, x \in ScanIndexes :
       \E rec \in {f \in [1..ScanIds -> UNION {ScanRecs(i) : i \in 1..ScanIds}] :
                       \A i \in 1..ScanIds : f[i].id = i} :
          store = [p \in Part |->
                      IF p = 1
                      THEN [i \in 1..Len(o) |->
                               [k |-> o[i],
                                v |-> IF o[i] = GlobalKey THEN StringifyStreams(x)
                                      ELSE StringifyStream(rec[o[i].id])]]
                      ELSE <<>>]
    /\ part = OneContext
    /\ now = T0
    /\ nextId = 0
    /\ nextMsg = 0
    /\ chan = EmptyChan
    /\ reqPending = [c \in Ctx |-> FALSE]
    /\ listeners = NoListeners
    /\ last = NoCall
    /\ pre = <<>>
    /\ emitted = <<>>
    /\ calls = <<>>
    /\ hist = [i \in StreamIds |-> <<>>]
    /\ ended = {}
    /\ run = NoRun
    /\ chain = NoChain

NextScan == GetAllActiveStreams(1)

SpecScan == InitScan /\ [][NextScan]_vars

\* C1: a call of getAllActiveStreams returns a stored record r if and only if
\* r is live and less than 24h old at the time of the call.
C1_Visibility ==
    last.op = "getAllActiveStreams" =>
        \A r \in RecordsOf(pre) : InSeq(r, last.ret) <=> Active(r, last.at)

\* C9: a call of getAllActiveStreams leaves out of its result, and removes the
\* individual key of, every record that is not live or is 24h old or older.
C9_PurgesEveryInvalid ==
    last.op = "getAllActiveStreams" =>
        \A r \in RecordsOf(pre) :
            ~Active(r, last.at) =>
                /\ ~InSeq(r, last.ret)
                /\ ~HasItem(store[1], StreamKey(r.id))

\* An index entry is valid when it and the individual record of its id are
\* both live and less than 24h old.
ValidEntry(ls, e, t) ==
    /\ Active(e, t)
    /\ HasItem(ls, StreamKey(e.id))
    /\ ~getItem(ls, StreamKey(e.id)).bad
    /\ Active(getItem(ls, StreamKey(e.id)).recs[1], t)

Stale(ls, e) == ~HasItem(ls, StreamKey(e.id))

\* C3: an index entry whose id has no individual record is not returned and is
\* gone from the rewritten index, and the valid entries are still returned.
C3_IndexSelfHealing ==
    (last.op = "getAllActiveStreams"
        /\ \E i \in 1..Len(IndexOf(pre)) : Stale(pre, IndexOf(pre)[i])) =>
        /\ \A i \in 1..Len(IndexOf(pre)) :
               LET e == IndexOf(pre)[i]
               IN  /\ Stale(pre, e) =>
                          /\ e.id \notin IdsOf(last.ret)
                          /\ e.id \notin IdsOf(IndexOf(store[1]))
                   /\ ValidEntry(pre, e, last.at) =>
                          InSeq(getItem(pre, StreamKey(e.id)).recs[1], last.ret)

\* A call that met a live, fresh index entry without a record beside a valid one.
C3_Witness ==
    /\ last.op = "getAllActiveStreams"
    /\ \E i, j \in 1..Len(IndexOf(pre)) :
          /\ Stale(pre, IndexOf(pre)[i])
          /\ Active(IndexOf(pre)[i], last.at)
          /\ ValidEntry(pre, IndexOf(pre)[j], last.at)
          /\ IndexOf(pre)[j].id \in IdsOf(last.ret)

\* C18: when getAllActiveStreams() has returned, the index in the storage is
\* the returned list, record for record in the same order, and every record
\* of it is live.
C18_IndexIsResult ==
    last.op = "getAllActiveStreams" =>
        /\ HasItem(store[1], GlobalKey)
        /\ getItem(store[1], GlobalKey) = StringifyStreams(last.ret)
        /\ \A i \in 1..Len(last.ret) : last.ret[i].isLive = TRUE

\* A call that returned streams from a storage whose index was another list.
C18_Witness ==
    /\ last.op = "getAllActiveStreams"
    /\ last.ret # <<>>
    /\ HasItem(pre, GlobalKey)
    /\ IndexOf(pre) # last.ret
    /\ IndexOf(store[1]) = last.ret

----------------------------------------------------------------------------
(* One context on an empty localStorage, as the constructor leaves it *)

Viewers == {"Alice"}

InitLocal ==
    /\ store = [p \in Part |-> <<>>]
    /\ part = OneContext
    /\ now = T0
    /\ nextId = 0
    /\ nextMsg = 0
    /\ chan = EmptyChan
    /\ reqPending = [c \in Ctx |-> FALSE]
    /\ listeners = NoListeners
    /\ last = NoCall
    /\ pre = <<>>
    /\ emitted = <<>>
    /\ calls = <<>>
    /\ hist = [i \in StreamIds |-> <<>>]
    /\ ended = {}
    /\ run = NoRun
    /\ chain = NoChain

(* SpecCreate: streams are created, listed and ended while the clock runs *)

CreateEnd == \E id \in StreamIds : EndStream(1, id)

NextCreate ==
    \/ FacadeCreateStream(1)
    \/ GetAllActiveStreams(1)
    \/ CreateEnd
    \/ Tick

SpecCreate == InitLocal /\ [][NextCreate]_vars

\* The stream data of call k (of createStream) was live and less than 24h old
\* when the call was made.
GivenActive(k) ==
    /\ k.op = "createStream"
    /\ k.arg[1].isLive = TRUE
    /\ k.at - k.arg[1].startTime < maxAge

\* How many records of the list streams have the id.
CountOf(streams, id) == Cardinality({i \in 1..Len(streams) : streams[i].id = id})

\* What createStream, given a live stream less than 24h old, leaves: the id is
\* none of those stored before, the record is under its individual key and
\* once in the index.
C7_Stored ==
    GivenActive(last) =>
        /\ last.id \notin IdsOf(IndexOf(pre))
        /\ \A r \in RecordsOf(pre) : r.id # last.id
        /\ ~HasItem(pre, StreamKey(last.id))
        /\ RecordOf(store[1], last.id) # <<>>
        /\ LET r == RecordOf(store[1], last.id)[1]
           IN  /\ r.isLive = TRUE
               /\ r.startTime = last.arg[1].startTime
               /\ r.viewerCount = 0
               /\ InSeq(r, IndexOf(store[1]))
        /\ CountOf(IndexOf(store[1]), last.id) = 1

\* C7 as stated: after createStream with a live stream less than 24h old, the
\* record is stored under its key and in the index under a fresh id X, and
\* the next getAllActiveStreams holds exactly one record with id X.
C7_CreateThenListed ==
    /\ C7_Stored
    /\ (last.op = "getAllActiveStreams" /\ GivenActive(last.prev)) =>
           CountOf(last.ret, last.prev.id) = 1

\* C7: the same, when the next getAllActiveStreams is called while the stream
\* is still less than 24h old.
C7_CreateThenListedWhileFresh ==
    /\ C7_Stored
    /\ (last.op = "getAllActiveStreams" /\ GivenActive(last.prev)
           /\ last.at - last.prev.arg[1].startTime < maxAge) =>
           /\ CountOf(last.ret, last.prev.id) = 1
           /\ \E i \in 1..Len(last.ret) :
                 /\ last.ret[i].id = last.prev.id
                 /\ last.ret[i].startTime = last.prev.arg[1].startTime

\* A getAllActiveStreams that followed the creation of a second stream, beside
\* a stored record that is not active, and returned the new stream.
C7_Witness ==
    /\ last.op = "getAllActiveStreams"
    /\ GivenActive(last.prev)
    /\ last.at - last.prev.arg[1].startTime < maxAge
    /\ \E r \in RecordsOf(pre) : r.id # last.prev.id /\ ~Active(r, last.at)
    /\ CountOf(last.ret, last.prev.id) = 1

(* SpecView: viewers join and leave; the ids called with include one that  *)
(* was never created                                                        *)

ViewIds == 1..(ViewStreams + 1)

ViewCreate == nextId < ViewStreams /\ FacadeCreateStream(1)
ViewJoin == nextMsg < MaxMsgs /\ \E id \in ViewIds, v \in Viewers : JoinStream(1, id, v)
ViewLeave == nextMsg < MaxMsgs /\ \E id \in ViewIds, v \in Viewers : LeaveStream(1, id, v)
ViewEnd == \E id \in ViewIds : EndStream(1, id)

NextView ==
    \/ ViewCreate
    \/ GetAllActiveStreams(1)
    \/ ViewJoin
    \/ ViewLeave
    \/ ViewEnd

SpecView == InitLocal /\ [][NextView]_vars

JoinOrLeaveCall == last.op \in {"joinStream", "leaveStream"}

\* The last call was joinStream or leaveStream for a stream whose stored record
\* was active when it was called.
OnActive ==
    /\ JoinOrLeaveCall
    /\ RecordOf(pre, last.id) # <<>>
    /\ Active(RecordOf(pre, last.id)[1], last.at)

\* C5: no stored viewerCount, in an individual record or in the index, is ever
\* below 0, whatever joins and leaves were called.
C5_ViewerCountNeverNegative ==
    /\ \A r \in RecordsOf(store[1]) : r.viewerCount >= 0
    /\ \A i \in 1..Len(IndexOf(store[1])) : IndexOf(store[1])[i].viewerCount >= 0

\* A leaveStream that succeeded on a stream with no viewers and left it at 0.
C5_Witness ==
    /\ last.op = "leaveStream"
    /\ last.ok
    /\ OnActive
    /\ RecordOf(pre, last.id)[1].viewerCount = 0
    /\ RecordOf(store[1], last.id)[1].viewerCount = 0

\* C8: joinStream on an active stream returns true, raises the stored
\* viewerCount by exactly 1 and appends one message of type join, sent by
\* System and naming the viewer, as the last entry of the transcript;
\* leaveStream lowers the count by 1, not below 0, and its message has type
\* leave.
C8_JoinLeaveEffect ==
    OnActive =>
        LET old == RecordOf(pre, last.id)[1]
            before == getChatMessages(pre, last.id)
            after == getChatMessages(store[1], last.id)
        IN  /\ last.ok = TRUE
            /\ RecordOf(store[1], last.id) # <<>>
            /\ RecordOf(store[1], last.id)[1].viewerCount =
                   IF last.op = "joinStream" THEN old.viewerCount + 1
                   ELSE IF old.viewerCount = 0 THEN 0 ELSE old.viewerCount - 1
            /\ after # <<>>
            /\ after[Len(after)].type = (IF last.op = "joinStream" THEN "join" ELSE "leave")
            /\ after[Len(after)].sender = "System"
            /\ after[Len(after)].message[1] = last.name
            /\ SubSeq(after, 1, Len(after) - 1) =
                   (IF Len(before) < ChatCap THEN before ELSE SubSeq(before, 2, Len(before)))

\* A join that took a stream from 0 viewers to 1 and a leave that took one
\* from 1 to 0.
C8_Witness ==
    /\ OnActive
    /\ last.op = "leaveStream"
    /\ RecordOf(pre, last.id)[1].viewerCount = 1
    /\ RecordOf(store[1], last.id)[1].viewerCount = 0
    /\ last.prev.op = "joinStream"
    /\ Len(getChatMessages(store[1], last.id)) = 2

\* The last call was joinStream or leaveStream for an id that getAllActiveStreams
\* would not have returned.
OnInactive ==
    /\ JoinOrLeaveCall
    /\ last.id \notin IdsOf(getAllStreamsFromStorage(pre, last.at, 1).ret)

Chats(ls) == [id \in StreamIds |-> getChatMessages(ls, id)]

\* C10 as stated: joinStream and leaveStream for an id that is not active
\* return false, leave the stream records, the index and the transcripts as
\* they were, and emit no event.
C10_NoSideEffects ==
    OnInactive =>
        /\ last.ok = FALSE
        /\ RecordsOf(store[1]) = RecordsOf(pre)
        /\ IndexOf(store[1]) = IndexOf(pre)
        /\ Chats(store[1]) = Chats(pre)
        /\ emitted = <<>>

\* C10: joinStream and leaveStream for an id that is not active return false,
\* emit no event, invoke no callback, append no message, and change the
\* storage only as the getAllActiveStreams call of their lookup does.
C10_OnlyReconciles ==
    OnInactive =>
        /\ last.ok = FALSE
        /\ last.threw = FALSE
        /\ emitted = <<>>
        /\ calls = <<>>
        /\ Chats(store[1]) = Chats(pre)
        /\ \E h \in {1, Len(pre) + 2} : store[1] = getAllStreamsFromStorage(pre, last.at, h).ls

\* A refused join or leave whose lookup purged the stored, ended or expired,
\* record of the id it was called with.
C10_Witness ==
    /\ OnInactive
    /\ last.ok = FALSE
    /\ RecordOf(pre, last.id) # <<>>
    /\ RecordOf(store[1], last.id) = <<>>

----------------------------------------------------------------------------
(* SpecChat: messages, joins and leaves on a transcript close to its cap *)

\* The messages of PreFill sendMessage calls by Bob to stream 1.
PreMsgs == [k \in 1..PreFill |->
               ChatMessage(k, 1, "Bob", Undefined, <<"hello">>, T0, "message")]

\* The storage after the facade's createStream of stream 1 on an empty storage
\* and those sendMessage calls: each one stored the last 100 of the messages
\* so far under the chat key, which the first one placed after the other keys.
InitChat ==
    /\ store = [p \in Part |->
                   IF p = 1
                   THEN Append(createStream(Exec(<<>>), NoListeners[1], 1,
                                            [title |-> "a", isLive |-> TRUE,
                                             startTime |-> T0, viewerCount |-> 0],
                                            1, T0, 1, 2).ls,
                               [k |-> ChatKey(1),
                                v |-> StringifyMessages(SliceLast(PreMsgs, ChatCap))])
                   ELSE <<>>]
    /\ part = OneContext
    /\ now = T0
    /\ nextId = 1
    /\ nextMsg = PreFill
    /\ chan = EmptyChan
    /\ reqPending = [c \in Ctx |-> FALSE]
    /\ listeners = NoListeners
    /\ last = NoCall
    /\ pre = <<>>
    /\ emitted = <<>>
    /\ calls = <<>>
    /\ hist = [i \in StreamIds |-> IF i = 1 THEN PreMsgs ELSE <<>>]
    /\ ended = {}
    /\ run = NoRun
    /\ chain = NoChain

ChatSend == nextMsg < PreFill + MaxAppend /\ \E id \in ViewIds : SendMessage(1, id, "Bob")
ChatJoin == nextMsg < PreFill + MaxAppend /\ \E id \in ViewIds, v \in Viewers : JoinStream(1, id, v)
ChatLeave == nextMsg < PreFill + MaxAppend /\ \E id \in ViewIds, v \in Viewers : LeaveStream(1, id, v)

NextChat ==
    \/ ChatSend
    \/ ChatJoin
    \/ ChatLeave

SpecChat == InitChat /\ [][NextChat]_vars

\* C4: the transcript getChatMessages returns for a stream never holds more
\* than 100 entries and is the most recent min(n, 100) of the n messages
\* appended for it by sendMessage, joinStream and leaveStream, in their order.
C4_TranscriptIsLastHundred ==
    \A id \in ViewIds :
        LET tr == getChatMessages(store[1], id)
            n == Len(hist[id])
        IN  /\ Len(tr) <= 100
            /\ Len(tr) = (IF n < 100 THEN n ELSE 100)
            /\ \A i \in 1..Len(tr) : tr[i] = hist[id][n - Len(tr) + i]

\* More than 100 messages were appended for stream 1, a join among them: the
\* transcript holds 100, the oldest are gone and the newest is last.
C4_Witness ==
    /\ Len(hist[1]) > 100
    /\ Len(getChatMessages(store[1], 1)) = 100
    /\ getChatMessages(store[1], 1)[1] # hist[1][1]
    /\ getChatMessages(store[1], 1)[100] = hist[1][Len(hist[1])]
    /\ \E i \in 1..100 : getChatMessages(store[1], 1)[i].type = "join"
    /\ last.op \in {"sendMessage", "joinStream", "leaveStream"}

----------------------------------------------------------------------------
(* SpecHub: subscribers, one of which throws, and the operations that emit *)

\* How many callbacks are registered in context c.
RECURSIVE Registered(_, _)
Registered(c, evs) ==
    IF evs = {} THEN 0
    ELSE LET e == CHOOSE e \in evs : TRUE
         IN  Len(listeners[c][e]) + Registered(c, evs \ {e})

\* The page subscribes its callbacks before it calls the operations.
HubOn ==
    /\ last.op \in {"none", "on"}
    /\ Registered(1, Events) < MaxListeners
    /\ \E e \in Events, cb \in Callbacks : On(1, e, cb)
HubCreate == nextId < ViewStreams /\ GoLive(1)
HubSend == nextMsg < HubMsgs /\ SendMessage(1, 1, "Bob")
HubJoin == nextMsg < HubMsgs /\ JoinStream(1, 1, "Alice")
HubLeave == nextMsg < HubMsgs /\ LeaveStream(1, 1, "Alice")
HubUpdate == UpdateStream(1, 1, [title |-> "b"])

NextHub ==
    \/ HubOn
    \/ HubCreate
    \/ HubUpdate
    \/ HubSend
    \/ HubJoin
    \/ HubLeave
    \/ EndStream(1, 1)
    \/ SyncStreams(1)

SpecHub == InitLocal /\ [][NextHub]_vars

\* How often the last call emitted the event, how often it invoked callback cb
\* for it, and how often cb is registered for it.
EmittedTimes(event) == Cardinality({i \in 1..Len(emitted) : emitted[i].ev = event})
InvokedTimes(event, cb) ==
    Cardinality({i \in 1..Len(calls) : calls[i] = [cb |-> cb, ev |-> event]})
RegisteredTimes(event, cb) ==
    Cardinality({i \in 1..Len(listeners[1][event]) : listeners[1][event][i] = cb})

\* C6: each time an operation emits an event, every callback registered for
\* the event is invoked, the ones after a callback that throws included, and
\* no exception reaches the caller of the operation.
C6_ThrowingSubscriberIsolated ==
    /\ last.threw = FALSE
    /\ \A event \in Events, cb \in Callbacks :
           InvokedTimes(event, cb) = EmittedTimes(event) * RegisteredTimes(event, cb)

\* A joinStream that returned true with the throwing callback registered for
\* viewerJoined before the other one: both were invoked, in that order.
C6_Witness ==
    /\ last.op = "joinStream"
    /\ last.ok
    /\ listeners[1]["viewerJoined"] = <<1, 2>>
    /\ Throws(1)
    /\ calls = <<[cb |-> 1, ev |-> "viewerJoined"], [cb |-> 2, ev |-> "viewerJoined"]>>
    /\ EmittedTimes("newMessage") = 1

----------------------------------------------------------------------------
(* Spec: the contexts of one origin, which share localStorage and the       *)
(* BroadcastChannel, each with its startup syncRequest still to be posted   *)

Init ==
    /\ store = [p \in Part |-> <<>>]
    /\ part = [c \in Ctx |-> IF c <= Tabs THEN 1 ELSE 0]
    /\ now = T0
    /\ nextId = 0
    /\ nextMsg = 0
    /\ chan = EmptyChan
    /\ reqPending = [c \in Ctx |-> c <= Tabs]
    /\ listeners = NoListeners
    /\ last = NoCall
    /\ pre = <<>>
    /\ emitted = <<>>
    /\ calls = <<>>
    /\ hist = [i \in StreamIds |-> <<>>]
    /\ ended = {}
    /\ run = NoRun
    /\ chain = NoChain

Next ==
    \/ \E c \in Ctx : nextId < ViewStreams /\ GoLive(c)
    \/ \E c \in Ctx, id \in 1..ViewStreams : EndStream(c, id)
    \/ \E c \in Ctx : GetAllActiveStreams(c)
    \/ \E c \in Ctx : SyncStreams(c)
    \/ \E c \in Ctx : PostSyncRequest(c)
    \/ \E c \in Ctx, s \in Ctx : RecvStreamCreated(c, s)
    \/ \E c \in Ctx, s \in Ctx : RecvStreamEnded(c, s)
    \/ \E c \in Ctx, s \in Ctx : RecvSyncRequest(c, s)
    \/ \E c \in Ctx, s \in Ctx : RecvSyncResponse(c, s)

Spec == Init /\ [][Next]_vars

\* C2: a getAllActiveStreams call in a context where endStream(id) has returned
\* does not return id, and the transcript of id is empty, whatever timer
\* syncs and broadcast messages the context handled in between.
C2_EndedStaysEnded ==
    last.op = "getAllActiveStreams" =>
        \A id \in StreamIds :
            <<last.ctx, id>> \in ended =>
                /\ id \notin IdsOf(last.ret)
                /\ getChatMessages(store[part[last.ctx]], id) = <<>>

----------------------------------------------------------------------------
(* SpecUpdate: updateStream applied to every storage state of SpecScan, for *)
(* the ids stored and for one that is not                                    *)

Updates == {[title |-> "b"], [isLive |-> FALSE]}

NextUpdate == \E id \in 1..(ScanIds + 1), updates \in Updates : UpdateStream(1, id, updates)

SpecUpdate == InitScan /\ [][NextUpdate]_vars

\* C11: updateStream for an id that has no individual record returns false,
\* creates no record and no index entry for the id, leaves the storage as it
\* was and emits no event.
C11_UpdateOfAbsentRefused ==
    (last.op = "updateStream" /\ ~HasItem(pre, StreamKey(last.id))) =>
        /\ last.ok = FALSE
        /\ last.threw = FALSE
        /\ store[1] = pre
        /\ ~HasItem(store[1], StreamKey(last.id))
        /\ CountOf(IndexOf(store[1]), last.id) = CountOf(IndexOf(pre), last.id)
        /\ emitted = <<>>

\* updateStream was refused for an id that had no record while other
\* records were stored.
C11_Witness ==
    /\ last.op = "updateStream"
    /\ ~HasItem(pre, StreamKey(last.id))
    /\ RecordsOf(pre) # {}
    /\ last.ok = FALSE
    /\ store[1] = pre

----------------------------------------------------------------------------
(* SpecQuota: the operations of one context on a storage that may fill up *)

QuotaSend == nextMsg < MaxMsgs /\ SendMessage(1, 1, "Bob")
QuotaJoin == nextMsg < MaxMsgs /\ JoinStream(1, 1, "Alice")
QuotaLeave == nextMsg < MaxMsgs /\ LeaveStream(1, 1, "Alice")

NextQuota ==
    \/ HubCreate
    \/ FillUp(1)
    \/ HubUpdate
    \/ QuotaSend
    \/ QuotaJoin
    \/ QuotaLeave
    \/ EndStream(1, 1)
    \/ GetAllActiveStreams(1)

SpecQuota == InitLocal /\ [][NextQuota]_vars

\* C12: no call of a public method of the registry ends with an exception
\* reaching its caller, a storage that rejects writes included.
C12_NoExceptionSurfaces == last.threw = FALSE

----------------------------------------------------------------------------
(* SpecCorrupt: the operations that read stored values, on storage states   *)
(* in which values fail JSON decoding                                        *)

\* A stored value that JSON.parse rejects.
Undecodable == [bad |-> TRUE, recs |-> <<>>, msgs |-> <<>>]

\* The record of stream 1 and one message of its transcript, as stored.
GoodRecord == [id |-> 1, title |-> "a", isLive |-> TRUE, viewerCount |-> 0,
               startTime |-> T0, lastUpdate |-> T0]
GoodMessage == ChatMessage(1, 1, "Bob", Undefined, <<"hello">>, T0, "message")

\* The storage states: under the stream key, the index key and the chat key of
\* stream 1 there is nothing, a decodable value or an undecodable one.
CorruptStores ==
    {SelectSeq(<<[k |-> StreamKey(1), v |-> sv], [k |-> GlobalKey, v |-> gv],
                 [k |-> ChatKey(1), v |-> cv]>>,
               LAMBDA e : e.v # <<>>) :
        sv \in {<<>>, StringifyStream(GoodRecord), Undecodable},
        gv \in {<<>>, StringifyStreams(<<GoodRecord>>), Undecodable},
        cv \in {<<>>, StringifyMessages(<<GoodMessage>>), Undecodable}}

InitCorrupt ==
    /\ \E ls \in CorruptStores : store = [p \in Part |-> IF p = 1 THEN ls ELSE <<>>]
    /\ part = OneContext
    /\ now = T0
    /\ nextId = 1
    /\ nextMsg = 1
    /\ chan = EmptyChan
    /\ reqPending = [c \in Ctx |-> FALSE]
    /\ listeners = NoListeners
    /\ last = NoCall
    /\ pre = <<>>
    /\ emitted = <<>>
    /\ calls = <<>>
    /\ hist = [i \in StreamIds |-> <<>>]
    /\ ended = {}
    /\ run = NoRun
    /\ chain = NoChain

CorruptSend == nextMsg < 1 + MaxMsgs /\ SendMessage(1, 1, "Bob")

NextCorrupt ==
    \/ GetAllActiveStreams(1)
    \/ HubUpdate
    \/ GetChatMessages(1, 1)
    \/ CorruptSend

SpecCorrupt == InitCorrupt /\ [][NextCorrupt]_vars

\* The value under key k of storage ls fails decoding.
BadAt(ls, k) == HasItem(ls, k) /\ getItem(ls, k).bad

\* The key an operation reads: the stream key for updateStream, the chat key
\* for getChatMessages and sendMessage.
KeyRead(call) == IF call.op = "updateStream" THEN StreamKey(call.id) ELSE ChatKey(call.id)

\* C13: an operation that read a value that fails decoding gave the result it
\* gives with the key absent, and the undecodable value is gone from the
\* storage when it returns.
C13_UndecodableAsAbsent ==
    /\ (last.op \in {"updateStream", "getChatMessages", "sendMessage"}
           /\ BadAt(pre, KeyRead(last))) =>
           /\ ~BadAt(store[1], KeyRead(last))
           /\ last.op = "updateStream" => last.ok = FALSE
           /\ last.op = "getChatMessages" => last.ret = <<>>
           /\ last.op = "sendMessage" => Len(getChatMessages(store[1], last.id)) = 1
    /\ last.op = "getAllActiveStreams" =>
           /\ \A i \in 1..Len(store[1]) :
                  store[1][i].k.t \in {"stream", "global"} => ~store[1][i].v.bad
           /\ last.ret = getAllStreamsFromStorage(
                             SelectSeq(pre, LAMBDA e : ~e.v.bad), last.at, 1).ret

----------------------------------------------------------------------------
(* SpecFair: Spec with the interval timer of every context firing again and *)
(* again, its startup timeout firing, and every posted message handled      *)

\* The last run of context c was its interval timer's.
TimerFired(c) == last.ctx = c /\ last.op = "syncStreams"

\* The scheduling of a context: its startup timeout fires; its interval timer
\* fires again and again (SyncStreams(c) is always enabled, so this is what
\* weak fairness of it gives); the message events posted to it are dispatched,
\* so that again and again none is waiting.
Fairness ==
    /\ \A c \in Ctx : WF_vars(PostSyncRequest(c))
    /\ \A c \in Ctx : []<>(Open(c) => TimerFired(c))
    /\ \A c \in Ctx : []<>(\A s \in Ctx : chan[s][c] = <<>>)

SpecFair == Spec /\ Fairness

\* The last run of context c emitted streamsUpdated with a payload that holds,
\* or does not hold, stream id.
Delivered(c, id) ==
    /\ last.ctx = c
    /\ \E i \in 1..Len(emitted) :
          emitted[i].ev = "streamsUpdated" /\ id \in IdsOf(emitted[i].streams)
DeliveredWithout(c, id) ==
    /\ last.ctx = c
    /\ \E i \in 1..Len(emitted) :
          emitted[i].ev = "streamsUpdated" /\ id \notin IdsOf(emitted[i].streams)

EndedSomewhere(id) == \E c \in Ctx : <<c, id>> \in ended

----------------------------------------------------------------------------
(* SpecIsolated: every context on a storage partition of its own; the last  *)
(* one starts empty with its startup syncRequest still to be posted, each   *)
(* of the others holds the stream it created, or none                       *)

Newcomer == NumCtx

\* The storage of context c after it created stream c.
Held(c) ==
    createStream(Exec(<<>>), NoListeners[c], c,
                 [title |-> "a", isLive |-> TRUE, viewerCount |-> 0, startTime |-> T0],
                 c, T0, 1, 1).ls

InitIsolated ==
    /\ store \in [Part -> UNION {{<<>>, Held(c)} : c \in Ctx}]
    /\ \A c \in Ctx : store[c] \in (IF c = Newcomer THEN {<<>>} ELSE {<<>>, Held(c)})
    /\ part = [c \in Ctx |-> c]
    /\ now = T0
    /\ nextId = NumCtx - 1
    /\ nextMsg = 0
    /\ chan = EmptyChan
    /\ reqPending = [c \in Ctx |-> c = Newcomer]
    /\ listeners = NoListeners
    /\ last = NoCall
    /\ pre = <<>>
    /\ emitted = <<>>
    /\ calls = <<>>
    /\ hist = [i \in StreamIds |-> <<>>]
    /\ ended = {}
    /\ run = NoRun
    /\ chain = NoChain

NextIsolated ==
    \/ \E c \in Ctx : PostSyncRequest(c)
    \/ \E c \in Ctx, s \in Ctx : RecvSyncRequest(c, s)
    \/ \E c \in Ctx, s \in Ctx : RecvSyncResponse(c, s)
    \/ \E c \in Ctx : SyncStreams(c)
    \/ \E c \in Ctx : GetAllActiveStreams(c)

\* The startup timeout fires and the message events of every context are
\* dispatched, so that again and again none is waiting.
Delivery ==
    /\ \A c \in Ctx : WF_vars(PostSyncRequest(c))
    /\ \A c \in Ctx : []<>(\A s \in Ctx : chan[s][c] = <<>>)

SpecIsolated == InitIsolated /\ [][NextIsolated]_vars /\ Delivery

\* What getAllActiveStreams() of context c would return now.
ActiveIds(c) == IdsOf(getAllStreamsFromStorage(Ls(c), now, 1).ret)

\* The syncResponse context c posts for the active streams it holds.
Response(c, streams) ==
    [type |-> "syncResponse", streams |-> streams, streamId |-> 0, windowId |-> c]

\* Context c has just handled a syncRequest.
Answered(c) == last.op = "onSyncRequest" /\ last.ctx = c

\* C15: a context that handles a syncRequest while it holds active streams
\* posts to every other context a syncResponse with all of them, and posts
\* nothing when it holds none; and every stream active in some other context
\* is eventually active in the newcomer.
C15_NewcomerLearnsStreams ==
    /\ [](\A c \in Ctx : Answered(c) =>
            \A r \in Ctx \ {c} :
                LET streams == getAllStreamsFromStorage(pre, last.at, 1).ret
                    new == SelectSeq(chan[c][r], LAMBDA m : m.type = "syncResponse")
                IN  IF streams # <<>> THEN new = <<Response(c, streams)>>
                    ELSE new = <<>>)
    /\ \A c \in Ctx \ {Newcomer}, id \in StreamIds :
            (id \in ActiveIds(c)) ~> (id \in ActiveIds(Newcomer))

\* The newcomer has applied a syncResponse and holds a stream of each of the
\* other contexts.
C15_Witness ==
    /\ last.op = "onSyncResponse"
    /\ last.ctx = Newcomer
    /\ \A c \in Ctx \ {Newcomer} : c \in ActiveIds(Newcomer)

----------------------------------------------------------------------------
(* SpecRace: two contexts on one localStorage, one inside endStream(1), the *)
(* other inside updateStream(1, ...) or joinStream(1, ...); every storage   *)
(* call is a step of its own, and the steps of the two interleave           *)

\* Context c is at the storage call pc of its method.
At(c, pc) == Open(c) /\ run[c].pc = pc

\* The updates the updateStream inside the method of run r is called with.
UpdatesOf(r) ==
    CASE r.op = "endStream" -> [isLive |-> FALSE]
      [] r.op = "joinStream" -> [viewerCount |-> NewCount(r.count, 1)]
      [] OTHER -> [title |-> "b"]

\* The storage call that follows the return of updateStream in the method.
AfterUpdate(op) ==
    CASE op = "endStream" -> "endReadIndex"
      [] op = "joinStream" -> "joinReadChat"
      [] OTHER -> "done"

\* The events a step emits and the message it posts, by where it leaves the
\* method: streamUpdated when updateStream returns true, streamEnded and the
\* broadcast when endStream returns, viewerJoined and newMessage when
\* joinStream returns.
EventsOf(c, r) ==
    CASE r.pc = "done" /\ r.op = "endStream" ->
            <<[ev |-> "streamEnded", id |-> r.id, streams |-> <<>>]>>
      [] r.pc = "done" /\ r.op = "joinStream" /\ r.ok ->
            <<[ev |-> "viewerJoined", id |-> r.id, streams |-> <<>>],
              [ev |-> "newMessage", id |-> r.id, streams |-> <<>>]>>
      [] r.pc = AfterUpdate(r.op) /\ run[c].pc = "writeIndex" ->
            <<[ev |-> "streamUpdated", id |-> r.id, streams |-> r.stream]>>
      [] OTHER -> <<>>
PostedBy(c, r) ==
    IF r.pc = "done" /\ r.op = "endStream"
    THEN broadcastStreamEvent(Exec(<<>>), c, "streamEnded", <<>>, r.id).out
    ELSE <<>>

\* One storage call of the method context c is inside: it leaves storage ls
\* and the method at r.
Step(c, ls, r) ==
    /\ store' = [store EXCEPT ![part[c]] = ls]
    /\ run' = [run EXCEPT ![c] = r]
    /\ emitted' = emitted \o EventsOf(c, r)
    /\ chan' = Post(chan, c, PostedBy(c, r))
    /\ last' = IF r.pc = "done" THEN Call(c, r.op, r.id, "", r.ok, <<>>, FALSE) ELSE last
    /\ ended' = IF r.pc = "done" /\ r.op = "endStream" THEN ended \cup {<<c, r.id>>}
                ELSE ended
    /\ UNCHANGED <<part, now, nextId, nextMsg, reqPending, listeners, pre, calls, hist, chain>>

\* joinStream: this.getAllActiveStreams().find(s => s.id === streamId)
JoinFind(c) ==
    /\ At(c, "joinFind")
    /\ \E h \in Places(c) :
          \E g \in {FindActive(Ls(c), run[c].id, now, h)} :
              Step(c, g.ls,
                   IF g.found = <<>> THEN [run[c] EXCEPT !.pc = "done", !.ok = FALSE]
                   ELSE [run[c] EXCEPT !.pc = "updateRead",
                                       !.count = g.found[1].viewerCount])

\* updateStream: localStorage.getItem of the stream key; without a record it
\* returns false.
UpdateRead(c) ==
    /\ At(c, "updateRead")
    /\ Step(c, Ls(c),
            IF RecordOf(Ls(c), run[c].id) = <<>>
            THEN [run[c] EXCEPT !.pc = AfterUpdate(run[c].op), !.ok = run[c].op # "updateStream"]
            ELSE [run[c] EXCEPT !.pc = "storeRecord",
                                !.stream = <<Merge(RecordOf(Ls(c), run[c].id)[1],
                                                   UpdatesOf(run[c]), now)>>])

\* storeStream: localStorage.setItem of the stream key
StoreRecord(c) ==
    /\ At(c, "storeRecord")
    /\ \E h \in Places(c) :
          Step(c, setItem(Ls(c), StreamKey(run[c].id), StringifyStream(run[c].stream[1]), h),
               [run[c] EXCEPT !.pc = "readIndex"])

\* storeStream: localStorage.getItem of the index key
StoreReadIndex(c) ==
    /\ At(c, "readIndex")
    /\ Step(c, Ls(c), [run[c] EXCEPT !.pc = "writeIndex", !.list = IndexOf(Ls(c))])

\* storeStream: localStorage.setItem of the index key; updateStream then
\* returns true.
StoreWriteIndex(c) ==
    /\ At(c, "writeIndex")
    /\ \E h \in Places(c) :
          LET others == SelectSeq(run[c].list, LAMBDA s : s.id # run[c].id)
              updated == IF run[c].stream[1].isLive THEN others \o run[c].stream ELSE others
          IN  Step(c, setItem(Ls(c), GlobalKey, StringifyStreams(updated), h),
                   [run[c] EXCEPT !.pc = AfterUpdate(run[c].op), !.ok = TRUE])

\* endStream: localStorage.getItem of the index key
EndReadIndex(c) ==
    /\ At(c, "endReadIndex")
    /\ Step(c, Ls(c),
            IF HasItem(Ls(c), GlobalKey) /\ ~getItem(Ls(c), GlobalKey).bad
            THEN [run[c] EXCEPT !.pc = "endWriteIndex", !.list = IndexOf(Ls(c))]
            ELSE [run[c] EXCEPT !.pc = "endRemoveRecord"])

\* endStream: localStorage.setItem of the filtered index
EndWriteIndex(c) ==
    /\ At(c, "endWriteIndex")
    /\ \E h \in Places(c) :
          Step(c, setItem(Ls(c), GlobalKey,
                          StringifyStreams(SelectSeq(run[c].list, LAMBDA s : s.id # run[c].id)),
                          h),
               [run[c] EXCEPT !.pc = "endRemoveRecord"])

\* endStream: localStorage.removeItem of the stream key
EndRemoveRecord(c) ==
    /\ At(c, "endRemoveRecord")
    /\ Step(c, removeItem(Ls(c), StreamKey(run[c].id)), [run[c] EXCEPT !.pc = "endRemoveChat"])

\* endStream: localStorage.removeItem of the chat key, then the event and the
\* broadcast; endStream returns.
EndRemoveChat(c) ==
    /\ At(c, "endRemoveChat")
    /\ Step(c, removeItem(Ls(c), ChatKey(run[c].id)), [run[c] EXCEPT !.pc = "done", !.ok = TRUE])

\* joinStream: getChatMessages(streamId)
JoinReadChat(c) ==
    /\ At(c, "joinReadChat")
    /\ Step(c, Ls(c),
            [run[c] EXCEPT !.pc = "joinWriteChat", !.list = getChatMessages(Ls(c), run[c].id)])

\* joinStream: localStorage.setItem of the transcript with the join message,
\* then the events; joinStream returns true.
JoinWriteChat(c) ==
    /\ At(c, "joinWriteChat")
    /\ \E h \in Places(c) :
          LET joinMessage == ChatMessage(nextMsg + 1, run[c].id, "System", Undefined,
                                         <<"Alice", " joined the stream">>, now, "join")
          IN  Step(c, setItem(Ls(c), ChatKey(run[c].id),
                              StringifyMessages(SliceLast(Append(run[c].list, joinMessage),
                                                          ChatCap)), h),
                   [run[c] EXCEPT !.pc = "done", !.ok = TRUE])

\* Context c about to run a method on stream 1.
Entering(op, pc) == [Idle EXCEPT !.op = op, !.pc = pc, !.id = 1]

\* Stream 1 was created by context 1; it has a transcript or none.
RaceStores ==
    {Held(1),
     AppendMessage(Held(1), 1, ChatMessage(1, 1, "Alice", Undefined, <<"hi">>, T0, "message"), 1)}

InitRace ==
    /\ store \in [Part -> RaceStores \cup {<<>>}]
    /\ store[1] \in RaceStores
    /\ \A p \in Part \ {1} : store[p] = <<>>
    /\ part = [c \in Ctx |-> IF c <= Tabs THEN 1 ELSE 0]
    /\ now = T0
    /\ nextId = 1
    /\ nextMsg = 1
    /\ chan = EmptyChan
    /\ reqPending = [c \in Ctx |-> FALSE]
    /\ listeners = NoListeners
    /\ last = NoCall
    /\ pre = <<>>
    /\ emitted = <<>>
    /\ calls = <<>>
    /\ hist = [i \in StreamIds |-> <<>>]
    /\ ended = {}
    /\ run \in [Ctx -> {Idle, Entering("endStream", "updateRead"),
                        Entering("updateStream", "updateRead"),
                        Entering("joinStream", "joinFind")}]
    /\ run[1].op = "endStream"
    /\ run[2].op \in {"updateStream", "joinStream"}
    /\ \A c \in Ctx : c > 2 => run[c] = Idle
    /\ chain = NoChain

NextRace ==
    \/ \E c \in Ctx : JoinFind(c)
    \/ \E c \in Ctx : UpdateRead(c)
    \/ \E c \in Ctx : StoreRecord(c)
    \/ \E c \in Ctx : StoreReadIndex(c)
    \/ \E c \in Ctx : StoreWriteIndex(c)
    \/ \E c \in Ctx : EndReadIndex(c)
    \/ \E c \in Ctx : EndWriteIndex(c)
    \/ \E c \in Ctx : EndRemoveRecord(c)
    \/ \E c \in Ctx : EndRemoveChat(c)
    \/ \E c \in Ctx : JoinReadChat(c)
    \/ \E c \in Ctx : JoinWriteChat(c)

SpecRace == InitRace /\ [][NextRace]_vars

\* Both methods have returned.
BothReturned == \A c \in Ctx : run[c].pc = "done"

\* C16: once endStream(1) of one context and updateStream(1, ...) or
\* joinStream(1, ...) of the other have both returned, however their storage
\* calls interleaved, the storage holds no record, no index entry and no
\* transcript of stream 1, and the stream is active in neither context.
C16_EndWinsRace ==
    BothReturned =>
        /\ ~HasItem(store[1], StreamKey(1))
        /\ 1 \notin IdsOf(IndexOf(store[1]))
        /\ ~HasItem(store[1], ChatKey(1))
        /\ \A c \in 1..Tabs : 1 \notin ActiveIds(c)

----------------------------------------------------------------------------
(* SpecParts: every context on a storage partition of its own, each holding *)
(* stream 1, which one of them ends; the last context has its startup       *)
(* syncRequest still to post                                                *)

InitParts ==
    /\ store = [p \in Part |-> Held(1)]
    /\ part = [c \in Ctx |-> c]
    /\ now = T0
    /\ nextId = 1
    /\ nextMsg = 0
    /\ chan = EmptyChan
    /\ reqPending = [c \in Ctx |-> c = Newcomer]
    /\ listeners = NoListeners
    /\ last = NoCall
    /\ pre = <<>>
    /\ emitted = <<>>
    /\ calls = <<>>
    /\ hist = [i \in StreamIds |-> <<>>]
    /\ ended = {}
    /\ run = NoRun
    /\ chain = NoChain

NextParts ==
    \/ \E c \in Ctx : ended = {} /\ EndStream(c, 1)
    \/ \E c \in Ctx : PostSyncRequest(c)
    \/ \E c \in Ctx, s \in Ctx : RecvStreamEnded(c, s)
    \/ \E c \in Ctx, s \in Ctx : RecvSyncRequest(c, s)
    \/ \E c \in Ctx, s \in Ctx : RecvSyncResponse(c, s)
    \/ \E c \in Ctx : GetAllActiveStreams(c)

SpecParts == InitParts /\ [][NextParts]_vars

\* No broadcast message is waiting to be handled.
AllHandled == chan = EmptyChan

\* C17: once a context has ended stream 1 and every message posted has been
\* handled, getAllActiveStreams() returns stream 1 in no context.
C17_EndReachesEveryContext ==
    (ended # {} /\ AllHandled) => \A c \in Ctx : 1 \notin ActiveIds(c)

----------------------------------------------------------------------------
(* SpecDup: getAllActiveStreams applied to storage states in which the      *)
(* index may list an id more than once and the record under a stream key    *)
(* may carry any id                                                         *)

\* The records: any id, live or ended, started now.
DupRecs ==
    {[id |-> id, title |-> "a", isLive |-> l, viewerCount |-> 0,
      startTime |-> T0, lastUpdate |-> T0] : id \in 1..ScanIds, l \in BOOLEAN}
DupIndexes == UNION {[1..n -> DupRecs] : n \in 0..MaxIndexLen}

InitDup ==
    /\ \E o \in ScanOrders, x \in DupIndexes, rec \in [1..ScanIds -> DupRecs] :
          store = [p \in Part |->
                      IF p = 1
                      THEN [i \in 1..Len(o) |->
                               [k |-> o[i],
                                v |-> IF o[i] = GlobalKey THEN StringifyStreams(x)
                                      ELSE StringifyStream(rec[o[i].id])]]
                      ELSE <<>>]
    /\ part = OneContext
    /\ now = T0
    /\ nextId = 0
    /\ nextMsg = 0
    /\ chan = EmptyChan
    /\ reqPending = [c \in Ctx |-> FALSE]
    /\ listeners = NoListeners
    /\ last = NoCall
    /\ pre = <<>>
    /\ emitted = <<>>
    /\ calls = <<>>
    /\ hist = [i \in StreamIds |-> <<>>]
    /\ ended = {}
    /\ run = NoRun
    /\ chain = NoChain

SpecDup == InitDup /\ [][NextScan]_vars

\* C19: the list getAllActiveStreams() returns holds no two records with the
\* same id.
C19_NoDuplicateIds ==
    last.op = "getAllActiveStreams" =>
        \A i, j \in 1..Len(last.ret) : i # j => last.ret[i].id # last.ret[j].id

----------------------------------------------------------------------------
(* SpecTags: the contexts of Spec, which also clear the registry *)

NextTags ==
    \/ Next
    \/ \E c \in Ctx : ClearAllStreams(c)
    \/ \E c \in Ctx, s \in Ctx : RecvStreamsCleared(c, s)

SpecTags == Init /\ [][NextTags]_vars

\* The runs of the BroadcastChannel message handler.
HandlerRuns == {"onStreamCreated", "onStreamEnded", "onSyncRequest", "onSyncResponse",
                "onStreamsCleared"}

\* C20: every message posted and not yet handled carries the windowId of the
\* context that posted it, and the message handler of a context only ever
\* runs for a message that carries another context's windowId.
C20_TaggedAndNeverOwn ==
    /\ \A s, r \in Ctx : \A i \in 1..Len(chan[s][r]) : chan[s][r][i].windowId = s
    /\ last.op \in HandlerRuns => last.from # last.ctx

\* A context has handled the syncRequest of another and its reply, tagged with
\* its own windowId, waits at the requester.
C20_Witness ==
    /\ last.op = "onSyncRequest"
    /\ last.from # last.ctx
    /\ chan[last.ctx][last.from] # <<>>
    /\ Head(chan[last.ctx][last.from]).type = "syncResponse"
    /\ Head(chan[last.ctx][last.from]).windowId = last.ctx

----------------------------------------------------------------------------
(* SpecApply: context 1, on any storage state of SpecScan with or without a *)
(* transcript of stream 1, has a streamCreated or a streamEnded message of  *)
(* context 2 to handle                                                      *)

\* The stream the streamCreated message carries: live, less than 24h old.
Incoming == [id |-> 1, title |-> "b", isLive |-> TRUE, viewerCount |-> 0,
             startTime |-> T0 - maxAge + 1, lastUpdate |-> T0 - maxAge + 1]

\* The messages context 2 posted: what broadcastStreamEvent builds.
IncomingMessages ==
    {broadcastStreamEvent(Exec(<<>>), 2, "streamCreated", <<Incoming>>, 1).out,
     broadcastStreamEvent(Exec(<<>>), 2, "streamEnded", <<>>, 1).out}

InitApply ==
    /\ \E o \in ScanOrders, x \in ScanIndexes, chat \in SUBSET {GoodMessage} :
       \E rec \in {f \in [1..ScanIds -> UNION {ScanRecs(i) : i \in 1..ScanIds}] :
                       \A i \in 1..ScanIds : f[i].id = i} :
          store = [p \in Part |->
                      IF p = 1
                      THEN [i \in 1..Len(o) |->
                               [k |-> o[i],
                                v |-> IF o[i] = GlobalKey THEN StringifyStreams(x)
                                      ELSE StringifyStream(rec[o[i].id])]]
                           \o (IF chat = {} THEN <<>>
                               ELSE <<[k |-> ChatKey(1), v |-> StringifyMessages(<<GoodMessage>>)]>>)
                      ELSE <<>>]
    /\ part = [c \in Ctx |-> IF c <= 2 THEN c ELSE 0]
    /\ now = T0
    /\ nextId = 1
    /\ nextMsg = 1
    /\ \E out \in IncomingMessages :
          chan = [EmptyChan EXCEPT ![2][1] = out]
    /\ reqPending = [c \in Ctx |-> FALSE]
    /\ listeners = NoListeners
    /\ last = NoCall
    /\ pre = <<>>
    /\ emitted = <<>>
    /\ calls = <<>>
    /\ hist = [i \in StreamIds |-> <<>>]
    /\ ended = {}
    /\ run = NoRun
    /\ chain = NoChain

NextApply ==
    \/ RecvStreamCreated(1, 2)
    \/ RecvStreamEnded(1, 2)

SpecApply == InitApply /\ [][NextApply]_vars

\* The last event emitted is streamsUpdated with the list getAllActiveStreams()
\* returns for the storage as it is now.
EmittedNewSet ==
    /\ emitted # <<>>
    /\ emitted[Len(emitted)].ev = "streamsUpdated"
    /\ emitted[Len(emitted)].streams = getAllStreamsFromStorage(store[1], now, 1).ret

\* C21: after the streamCreated message is handled the storage holds the
\* stream it carried under its key and in the index, after the streamEnded
\* message it holds no record, no transcript and no index entry of the id, and
\* in both cases streamsUpdated is emitted with the new set.
C21_AppliedAsLocal ==
    /\ last.op = "onStreamCreated" =>
          /\ RecordOf(store[1], 1) = <<Incoming>>
          /\ InSeq(Incoming, IndexOf(store[1]))
          /\ EmittedNewSet
    /\ last.op = "onStreamEnded" =>
          /\ ~HasItem(store[1], StreamKey(1))
          /\ ~HasItem(store[1], ChatKey(1))
          /\ 1 \notin IdsOf(IndexOf(store[1]))
          /\ EmittedNewSet

----------------------------------------------------------------------------
(* SpecEmit: on, off and emissions of one event in one context, with        *)
(* callbacks that call off and on while the emission is running             *)

\* The callbacks a page registers: 1 throws, 2 returns, 3 is a one-shot
\* subscriber that calls off(event, itself), 4 calls on(event, callback 2).
Subscribers == {1, 2, 3, 4}
OneShot(cb) == cb = 3
Subscribing(cb) == cb = 4

\* listeners.indexOf(callback) and listeners.splice(index, 1): the first
\* occurrence leaves the array, which stays as it is when there is none.
Splice(cbs, cb) ==
    IF \E i \in 1..Len(cbs) : cbs[i] = cb
    THEN LET index == CHOOSE i \in 1..Len(cbs) :
                          cbs[i] = cb /\ \A j \in 1..(i - 1) : cbs[j] # cb
         IN  [j \in 1..(Len(cbs) - 1) |-> IF j < index THEN cbs[j] ELSE cbs[j + 1]]
    ELSE cbs

\* The array of the event after callback cb ran: the one-shot subscriber
\* called off, the subscribing one called on.
AfterCallback(cbs, cb) ==
    IF OneShot(cb) THEN Splice(cbs, cb)
    ELSE IF Subscribing(cb) THEN Append(cbs, 2)
    ELSE cbs

\* listeners.forEach on the array the map holds: the positions 1..n that
\* existed when it started are visited in order, each read from the array as
\* it is then; a position the array no longer has is skipped.
RECURSIVE ForEach(_, _, _, _)
ForEach(cbs, k, n, invoked) ==
    IF k > n THEN [cbs |-> cbs, invoked |-> invoked]
    ELSE IF k > Len(cbs) THEN ForEach(cbs, k + 1, n, invoked)
    ELSE ForEach(AfterCallback(cbs, cbs[k]), k + 1, n, Append(invoked, cbs[k]))

\* off(event, callback)
Off(c, event, cb) ==
    /\ Open(c)
    /\ listeners' = [listeners EXCEPT ![c][event] = Splice(@, cb)]
    /\ last' = [Call(c, "off", cb, event, TRUE, <<>>, FALSE) EXCEPT !.arg = listeners[c][event]]
    /\ pre' = Ls(c)
    /\ emitted' = <<>>
    /\ calls' = <<>>
    /\ UNCHANGED <<store, part, now, nextId, nextMsg, chan, reqPending, hist, ended, run, chain>>

\* triggerListeners(event, data) with callbacks that call on and off.
TriggerListeners(c, event) ==
    /\ Open(c)
    /\ \E r \in {ForEach(listeners[c][event], 1, Len(listeners[c][event]), <<>>)} :
          /\ Len(r.cbs) <= SubCap
          /\ listeners' = [listeners EXCEPT ![c][event] = r.cbs]
          /\ calls' = [i \in 1..Len(r.invoked) |-> [cb |-> r.invoked[i], ev |-> event]]
    /\ last' = [Call(c, "triggerListeners", 0, event, TRUE, <<>>, FALSE)
                   EXCEPT !.arg = listeners[c][event]]
    /\ pre' = Ls(c)
    /\ emitted' = <<[ev |-> event, id |-> 0, streams |-> <<>>]>>
    /\ UNCHANGED <<store, part, now, nextId, nextMsg, chan, reqPending, hist, ended, run, chain>>

\* The page registers a callback it has not registered yet.
EmitOn ==
    \E cb \in Subscribers :
        /\ Len(listeners[1]["newMessage"]) < SubCap
        /\ ~InSeq(cb, listeners[1]["newMessage"])
        /\ On(1, "newMessage", cb)
EmitOff == \E cb \in Subscribers : Off(1, "newMessage", cb)

NextEmit ==
    \/ EmitOn
    \/ EmitOff
    \/ TriggerListeners(1, "newMessage")

SpecEmit == InitLocal /\ [][NextEmit]_vars

\* The callbacks invoked by the last call, in order.
Invoked == [i \in 1..Len(calls) |-> calls[i].cb]

\* C22: an emission invokes the callbacks that were registered when it started
\* and are still registered when it ends once each, in registration order;
\* off(event, fn) takes the first registration of fn out of the list of the
\* event and leaves every other registration as it was.
C22_EmissionReachesEveryCallback ==
    /\ last.op = "triggerListeners" =>
          LET Kept(cb) == InSeq(cb, listeners[1][last.name])
          IN  SelectSeq(Invoked, Kept) = SelectSeq(last.arg, Kept)
    /\ last.op = "off" =>
          /\ listeners[1][last.name] = Splice(last.arg, last.id)
          /\ \A e \in Events \ {last.name} : listeners[1][e] = <<>>

----------------------------------------------------------------------------
(* SpecFields: updateStream applied to every storage state of SpecScan with *)
(* the partial records a caller may pass                                    *)

\* Partial<StreamData>: any subset of the fields, the id and lastUpdate included.
FieldUpdates ==
    {[title |-> "b", lastUpdate |-> 5], [isLive |-> FALSE], [id |-> 2]}

NextFields == \E id \in 1..ScanIds, updates \in FieldUpdates : UpdateStream(1, id, updates)

SpecFields == InitScan /\ [][NextFields]_vars

\* The index entries of stream id in storage ls.
EntriesOf(ls, id) == SelectSeq(IndexOf(ls), LAMBDA e : e.id = id)

\* C23: after a successful updateStream(id, fields) the record under the key of
\* id is the old one with the named fields replaced and lastUpdate set to the
\* time of the call, the index holds that record once if it is live and not at
\* all if it is not, streamUpdated was emitted once with it, and the record,
\* index entries and transcript of every other stream are as before.
C23_UpdateFrame ==
    (last.op = "updateStream" /\ last.ok) =>
        LET fields == last.arg[1]
            old == RecordOf(pre, last.id)[1]
            new == RecordOf(store[1], last.id)[1]
        IN  /\ \A f \in {"id", "title", "isLive", "viewerCount", "startTime"} :
                   new[f] = IF f \in DOMAIN fields THEN fields[f] ELSE old[f]
            /\ new.lastUpdate = last.at
            /\ EntriesOf(store[1], last.id) = IF new.isLive = TRUE THEN <<new>> ELSE <<>>
            /\ emitted = <<[ev |-> "streamUpdated", id |-> last.id, streams |-> <<new>>]>>
            /\ \A j \in StreamIds \ {last.id} :
                   /\ RecordOf(store[1], j) = RecordOf(pre, j)
                   /\ EntriesOf(store[1], j) = EntriesOf(pre, j)
                   /\ getChatMessages(store[1], j) = getChatMessages(pre, j)

----------------------------------------------------------------------------
(* SpecIds: the contexts of Spec, which also update, join and leave the     *)
(* stream with any partial record                                           *)

IdsUpdate == \E updates \in FieldUpdates : UpdateStream(1, 1, updates)
IdsJoin == nextMsg < HubMsgs /\ JoinStream(2, 1, "Alice")
IdsLeave == nextMsg < HubMsgs /\ LeaveStream(2, 1, "Alice")

NextIds ==
    \/ \E c \in Ctx : nextId < ViewStreams /\ GoLive(c)
    \/ \E c \in Ctx : EndStream(c, 1)
    \/ \E c \in Ctx, s \in Ctx : RecvStreamCreated(c, s)
    \/ \E c \in Ctx, s \in Ctx : RecvStreamEnded(c, s)
    \/ IdsUpdate
    \/ IdsJoin
    \/ IdsLeave

SpecIds == Init /\ [][NextIds]_vars

\* C24: every decodable record stored under the key of stream k has id k, in
\* every storage partition, so no operation gives a stored record another id.
C24_IdIsKey ==
    \A p \in Part : \A i \in 1..Len(store[p]) :
        (store[p][i].k.t = "stream" /\ ~store[p][i].v.bad) =>
            store[p][i].v.recs[1].id = store[p][i].k.id

\* updateStream was called for stream 1 with another id among the fields, and
\* returned true; stream 1 is stored as it was.
C24_Witness ==
    /\ last.op = "updateStream"
    /\ last.ok
    /\ "id" \in DOMAIN last.arg[1]
    /\ last.arg[1].id # last.id
    /\ RecordOf(store[1], last.id) = RecordOf(pre, last.id)
    /\ RecordOf(store[1], last.arg[1].id) # <<>>

----------------------------------------------------------------------------
(* SpecFacade: the page calls the methods of StreamingContract, and every   *)
(* call is compared with the method of SimpleStreamSync of the same name    *)

\* A facade createStream that hands the viewerCount of the caller on.
StreamingContract_createStream_AsGiven(x, L, c, streamData, id, t, h1, h2) ==
    createStream(x, L, c,
                 [title |-> streamData.title, isLive |-> streamData.isLive,
                  startTime |-> streamData.startTime,
                  viewerCount |-> Field([viewerCount |-> 0], streamData, "viewerCount")],
                 id, t, h1, h2)

\* createStream(streamData): {...streamData, viewerCount: 0} goes to the registry.
StreamingContract_createStream(x, L, c, streamData, id, t, h1, h2) ==
    createStream(x, L, c,
                 [title |-> streamData.title, isLive |-> streamData.isLive,
                  startTime |-> streamData.startTime, viewerCount |-> 0],
                 id, t, h1, h2)

\* streams.find(s => s.id === streamId) || null, null being the empty list.
Find(streams, streamId) ==
    IF \E i \in 1..Len(streams) : streams[i].id = streamId
    THEN <<streams[CHOOSE i \in 1..Len(streams) :
                      /\ streams[i].id = streamId
                      /\ \A j \in 1..(i - 1) : streams[j].id # streamId]>>
    ELSE <<>>

\* getStream(streamId): [ls |-> the storage it leaves, ret |-> its result].
StreamingContract_getStream(ls, streamId, t, h) ==
    [ls |-> getAllStreamsFromStorage(ls, t, h).ls,
     ret |-> Find(getAllStreamsFromStorage(ls, t, h).ret, streamId)]

\* The other methods hand their arguments to the registry and return its result.
StreamingContract_updateStream(x, L, streamId, updates, t, h1, h2) ==
    updateStream(x, L, streamId, updates, t, h1, h2)
StreamingContract_endStream(x, L, c, streamId, t, h1, h2) ==
    endStream(x, L, c, streamId, t, h1, h2)
StreamingContract_sendMessage(x, L, streamId, sender, message, senderAddress, mid, t, h) ==
    sendMessage(x, L, streamId, sender, message, senderAddress, mid, t, h)
StreamingContract_getChatMessages(ls, streamId) == getChatMessages(ls, streamId)
StreamingContract_joinStream(x, L, streamId, viewerName, mid, t, h1, h2) ==
    joinStream(x, L, streamId, viewerName, mid, t, h1, h2)
StreamingContract_leaveStream(x, L, streamId, viewerName, mid, t, h1, h2) ==
    leaveStream(x, L, streamId, viewerName, mid, t, h1, h2)
StreamingContract_getAllActiveStreams(ls, t, h) == getAllStreamsFromStorage(ls, t, h)
StreamingContract_clearAllStreams(x, L, c) == clearAllStreams(x, L, c)

\* What callers pass to createStream: with a viewerCount of their own or
\* without one, live or not.
CallerData ==
    {[title |-> "a", isLive |-> TRUE, startTime |-> T0, viewerCount |-> 3],
     [title |-> "a", isLive |-> TRUE, startTime |-> T0],
     [title |-> "a", isLive |-> FALSE, startTime |-> T0, viewerCount |-> 3]}

\* A call of the facade by the page of context 1, with the arguments it got.
FacadeCall(op, id, name, ok, ret, threw, arg) ==
    [Call(1, op, id, name, ok, ret, threw) EXCEPT !.arg = arg]

FacadeOn == listeners[1]["streamCreated"] = <<>> /\ On(1, "streamCreated", 2)

FacadeOff == Off(1, "streamCreated", 2)

FacadeCreate ==
    /\ nextId < ViewStreams
    /\ \E streamData \in CallerData, h1 \in Places(1), h2 \in Places(1) :
          \E x \in {StreamingContract_createStream(Exec(Ls(1)), listeners[1], 1, streamData,
                                                   nextId + 1, now, h1, h2)} :
              Commit(1, x, FacadeCall("createStream", nextId + 1, "", TRUE, <<>>, x.threw,
                                      <<streamData>>))
    /\ nextId' = nextId + 1
    /\ UNCHANGED <<part, now, nextMsg, reqPending, listeners, hist, ended, run, chain>>

FacadeGetStream ==
    /\ \E id \in ViewIds, h \in Places(1) :
          \E g \in {StreamingContract_getStream(Ls(1), id, now, h)} :
              Commit(1, Exec(g.ls), FacadeCall("getStream", id, "", TRUE, g.ret, FALSE, <<>>))
    /\ UNCHANGED <<part, now, nextId, nextMsg, reqPending, listeners, hist, ended, run, chain>>

FacadeGetAll ==
    /\ \E h \in Places(1) :
          \E g \in {StreamingContract_getAllActiveStreams(Ls(1), now, h)} :
              Commit(1, Exec(g.ls),
                     FacadeCall("getAllActiveStreams", 0, "", TRUE, g.ret, FALSE, <<>>))
    /\ UNCHANGED <<part, now, nextId, nextMsg, reqPending, listeners, hist, ended, run, chain>>

FacadeUpdate ==
    /\ \E updates \in {[title |-> "b"], [isLive |-> FALSE]},
          h1 \in Places(1), h2 \in Places(1) :
          \E r \in {StreamingContract_updateStream(Exec(Ls(1)), listeners[1], 1, updates,
                                                   now, h1, h2)} :
              Commit(1, r.x, FacadeCall("updateStream", 1, "", r.ok, <<>>, r.x.threw,
                                        <<updates>>))
    /\ UNCHANGED <<part, now, nextId, nextMsg, reqPending, listeners, hist, ended, run, chain>>

FacadeEnd ==
    /\ \E h1 \in Places(1), h2 \in Places(1) :
          \E x \in {StreamingContract_endStream(Exec(Ls(1)), listeners[1], 1, 1, now, h1, h2)} :
              Commit(1, x, FacadeCall("endStream", 1, "", TRUE, <<>>, x.threw, <<>>))
    /\ ended' = ended \cup {<<1, 1>>}
    /\ UNCHANGED <<part, now, nextId, nextMsg, reqPending, listeners, hist, run, chain>>

FacadeClear ==
    /\ \E x \in {StreamingContract_clearAllStreams(Exec(Ls(1)), listeners[1], 1)} :
          Commit(1, x, FacadeCall("clearAllStreams", 0, "", TRUE, <<>>, x.threw, <<>>))
    /\ UNCHANGED <<part, now, nextId, nextMsg, reqPending, listeners, hist, ended, run, chain>>

\* The result r of a method that appends to a transcript.
FacadeSaid(op, id, name, r) ==
    /\ Commit(1, r.x, FacadeCall(op, id, name, r.ok, <<>>, r.x.threw, <<nextMsg + 1>>))
    /\ hist' = Appended(id, r.x)
    /\ nextMsg' = nextMsg + Len(r.x.app)
    /\ UNCHANGED <<part, now, nextId, reqPending, listeners, ended, run, chain>>

FacadeSend ==
    /\ nextMsg < HubMsgs
    /\ \E id \in ViewIds, h \in Places(1) :
          FacadeSaid("sendMessage", id, "Bob",
                     StreamingContract_sendMessage(Exec(Ls(1)), listeners[1], id, "Bob", "hello",
                                                   Undefined, nextMsg + 1, now, h))

FacadeJoin ==
    /\ nextMsg < HubMsgs
    /\ \E h1 \in Places(1), h2 \in Places(1) :
          FacadeSaid("joinStream", 1, "Alice",
                     StreamingContract_joinStream(Exec(Ls(1)), listeners[1], 1, "Alice",
                                                  nextMsg + 1, now, h1, h2))

FacadeLeave ==
    /\ nextMsg < HubMsgs
    /\ \E h1 \in Places(1), h2 \in Places(1) :
          FacadeSaid("leaveStream", 1, "Alice",
                     StreamingContract_leaveStream(Exec(Ls(1)), listeners[1], 1, "Alice",
                                                   nextMsg + 1, now, h1, h2))

FacadeGetChat ==
    /\ \E id \in ViewIds :
          Commit(1, Exec(Ls(1)),
                 FacadeCall("getChatMessages", id, "", TRUE,
                            StreamingContract_getChatMessages(Ls(1), id), FALSE, <<>>))
    /\ UNCHANGED <<part, now, nextId, nextMsg, reqPending, listeners, hist, ended, run, chain>>

NextFacade ==
    \/ FacadeOn
    \/ FacadeOff
    \/ FacadeCreate
    \/ FacadeGetStream
    \/ FacadeGetAll
    \/ FacadeUpdate
    \/ FacadeEnd
    \/ FacadeClear
    \/ FacadeSend
    \/ FacadeJoin
    \/ FacadeLeave
    \/ FacadeGetChat

SpecFacade == InitLocal /\ [][NextFacade]_vars

\* The registry method left the storage, the emitted events, the callbacks
\* invoked and the result that the last facade call left.
SameAs(x, ok, ret) ==
    /\ store[1] = x.ls
    /\ emitted = x.ev
    /\ calls = x.cl
    /\ last.threw = x.threw
    /\ last.ok = ok
    /\ last.ret = ret

\* C25: every call of the facade returns what the registry method of the same
\* name returns for the same arguments in the same storage, and leaves the
\* same storage and the same emitted events; createStream is the registry's
\* createStream with viewerCount 0, and getStream(id) is the record of id in
\* getAllActiveStreams() or null when it has none.
C25_FacadeIsRegistry ==
    LET X == Exec(pre)
        L == listeners[1]
        P == {1, Len(pre) + 2}
        t == last.at
    IN  /\ last.op = "createStream" =>
              /\ \E h1 \in P, h2 \in P :
                    SameAs(createStream(X, L, 1,
                                        [title |-> last.arg[1].title,
                                         isLive |-> last.arg[1].isLive,
                                         startTime |-> last.arg[1].startTime,
                                         viewerCount |-> 0],
                                        last.id, t, h1, h2), TRUE, <<>>)
              /\ \A i \in 1..Len(emitted) : \A j \in 1..Len(emitted[i].streams) :
                    emitted[i].streams[j].viewerCount = 0
              /\ RecordOf(store[1], last.id) # <<>> =>
                    RecordOf(store[1], last.id)[1].viewerCount = 0
        /\ last.op = "getStream" =>
              \E h \in P :
                  LET g == getAllStreamsFromStorage(pre, t, h)
                  IN  /\ store[1] = g.ls
                      /\ emitted = <<>>
                      /\ (last.ret # <<>>) <=> (\E i \in 1..Len(g.ret) : g.ret[i].id = last.id)
                      /\ last.ret # <<>> =>
                            /\ last.ret[1].id = last.id
                            /\ \E i \in 1..Len(g.ret) : g.ret[i] = last.ret[1]
        /\ last.op = "getAllActiveStreams" =>
              \E h \in P :
                  LET g == getAllStreamsFromStorage(pre, t, h)
                  IN  SameAs(Exec(g.ls), TRUE, g.ret)
        /\ last.op = "updateStream" =>
              \E h1 \in P, h2 \in P :
                  LET r == updateStream(X, L, last.id, last.arg[1], t, h1, h2)
                  IN  SameAs(r.x, r.ok, <<>>)
        /\ last.op = "endStream" =>
              \E h1 \in P, h2 \in P :
                  SameAs(endStream(X, L, 1, last.id, t, h1, h2), TRUE, <<>>)
        /\ last.op = "clearAllStreams" => SameAs(clearAllStreams(X, L, 1), TRUE, <<>>)
        /\ last.op = "sendMessage" =>
              \E h \in P :
                  LET r == sendMessage(X, L, last.id, last.name, "hello", Undefined,
                                       last.arg[1], t, h)
                  IN  SameAs(r.x, r.ok, <<>>)
        /\ last.op = "joinStream" =>
              \E h1 \in P, h2 \in P :
                  LET r == joinStream(X, L, last.id, last.name, last.arg[1], t, h1, h2)
                  IN  SameAs(r.x, r.ok, <<>>)
        /\ last.op = "leaveStream" =>
              \E h1 \in P, h2 \in P :
                  LET r == leaveStream(X, L, last.id, last.name, last.arg[1], t, h1, h2)
                  IN  SameAs(r.x, r.ok, <<>>)
        /\ last.op = "getChatMessages" =>
              SameAs(X, TRUE, getChatMessages(pre, last.id))

\* The page called createStream with a viewerCount of 3 while a callback was
\* subscribed: the record is stored with viewerCount 0.
C25_Witness ==
    /\ last.op = "createStream"
    /\ "viewerCount" \in DOMAIN last.arg[1]
    /\ last.arg[1].viewerCount = 3
    /\ RecordOf(store[1], last.id) # <<>>
    /\ RecordOf(store[1], last.id)[1].viewerCount = 0
    /\ calls # <<>>

----------------------------------------------------------------------------
(* getAllActiveStreams called twice in a row, under SpecScan                *)

\* C26: after getAllActiveStreams() returned, a second call at the same time
\* with no write in between returns the same list and leaves the storage as
\* the first call left it.
C26_ScanIdempotent ==
    (last.op = "getAllActiveStreams" /\ now = last.at) =>
        \A h \in Places(1) :
            LET again == getAllStreamsFromStorage(store[1], now, h)
            IN  /\ again.ret = last.ret
                /\ again.ls = store[1]

----------------------------------------------------------------------------
(* SpecFrame: streams are ended and messages are sent, for stored and for   *)
(* unknown ids, in every storage state of SpecScan                          *)

\* Stream 1 or a stream that was never stored is ended; a message is sent to
\* stream 2 or to a stream that was never stored.
FrameSend == nextMsg < HubMsgs /\ \E id \in {2, ScanIds + 1} : SendMessage(1, id, "Bob")
FrameEnd == \E id \in {1, ScanIds + 1} : EndStream(1, id)

NextFrame ==
    \/ FrameSend
    \/ FrameEnd

SpecFrame == InitScan /\ [][NextFrame]_vars

\* What is stored under key k of storage ls, as a list: empty when there is
\* no such key.
ItemOf(ls, k) == IF HasItem(ls, k) THEN <<getItem(ls, k)>> ELSE <<>>

\* C27: endStream(id) leaves the record, the index entry and the transcript of
\* every other stream as they were, also when id is not stored; sendMessage
\* changes the transcript key of id and nothing else, no record and no index
\* entry, and it returns true and stores a transcript also when no stream
\* with that id is stored.
C27_OwnStreamOnly ==
    /\ last.op = "endStream" =>
          \A j \in StreamIds \ {last.id} :
              /\ ItemOf(store[1], StreamKey(j)) = ItemOf(pre, StreamKey(j))
              /\ EntriesOf(store[1], j) = EntriesOf(pre, j)
              /\ ItemOf(store[1], ChatKey(j)) = ItemOf(pre, ChatKey(j))
    /\ last.op = "sendMessage" =>
          /\ \A j \in StreamIds : ItemOf(store[1], StreamKey(j)) = ItemOf(pre, StreamKey(j))
          /\ ItemOf(store[1], GlobalKey) = ItemOf(pre, GlobalKey)
          /\ \A j \in StreamIds \ {last.id} :
                ItemOf(store[1], ChatKey(j)) = ItemOf(pre, ChatKey(j))
          /\ last.ok
          /\ Len(getChatMessages(store[1], last.id)) = Len(getChatMessages(pre, last.id)) + 1

\* A stream that is not stored was ended while another stream had its record,
\* its index entry and the transcript a message created.
C27_Witness ==
    /\ last.op = "endStream"
    /\ ItemOf(pre, StreamKey(last.id)) = <<>>
    /\ \E j \in StreamIds \ {last.id} :
          /\ ItemOf(store[1], StreamKey(j)) # <<>>
          /\ EntriesOf(store[1], j) # <<>>
          /\ ItemOf(store[1], ChatKey(j)) # <<>>

----------------------------------------------------------------------------
(* SpecChain: accounts send transactions to the PandaPiStreaming contract   *)

\* A transaction with outcome r: a revert leaves the contract as it was.
Transact(op, sender, id, value, r) ==
    /\ chain' = [s |-> IF r.ok THEN r.s ELSE chain.s,
                 was |-> chain.s,
                 tx |-> [op |-> op, sender |-> sender, id |-> id, value |-> value,
                         ok |-> r.ok]]
    /\ UNCHANGED <<store, part, now, nextId, nextMsg, chan, reqPending, listeners,
                   last, pre, emitted, calls, hist, ended, run>>

\* Prices per hour: 40 wei per second, and one whose cost does not fit.
Prices == {0, 144000, WordMax}

RegisterUser ==
    \E a \in Accounts, h \in {"", "Qm"} :
        Transact("registerUser", a, 0, 0, registerUser(chain.s, a, h))

CreateModerator ==
    /\ Len(chain.s.moderators) < ChainModerators
    /\ \E a \in Accounts, p \in Prices :
          Transact("createModerator", a, p, 0, createModerator(chain.s, a, "toxicity", p))

CreateStream ==
    /\ Len(chain.s.streams) < ChainStreams
    /\ \E a \in Accounts, ids \in {<<>>, <<1>>, <<1, 2>>} :
          Transact("createStream", a, Len(ids), 0,
                   PandaPiStreaming_createStream(chain.s, a, "a", "games", ids))

\* A block with a later timestamp.
Mine ==
    /\ chain.s.timestamp < ChainTime
    /\ chain' = [chain EXCEPT !.s.timestamp = @ + 1, !.was = chain.s,
                              !.tx = [NoTx EXCEPT !.op = "block"]]
    /\ UNCHANGED <<store, part, now, nextId, nextMsg, chan, reqPending, listeners,
                   last, pre, emitted, calls, hist, ended, run>>

EndStreamTx ==
    \E a \in Accounts, id \in 0..(ChainStreams + 1) :
        Transact("endStream", a, id, 0, PandaPiStreaming_endStream(chain.s, a, id, 7))

\* The value sent is less than the cost, the cost, or more.
PayModeratorUsage ==
    \E a \in Accounts, u \in 1..(ChainModerators + 1) :
        \E value \in {UsageAt(chain.s, u).cost - 1, UsageAt(chain.s, u).cost,
                      UsageAt(chain.s, u).cost + 1} \cap Nat :
            Transact("payModeratorUsage", a, u, value,
                     payModeratorUsage(chain.s, a, value, u))

WithdrawEarnings ==
    \E a \in Accounts : Transact("withdrawEarnings", a, 0, 0, withdrawEarnings(chain.s, a))

UpdatePlatformFee ==
    \E a \in Accounts, f \in {0, 1000, 1001} :
        Transact("updatePlatformFee", a, f, 0, updatePlatformFee(chain.s, a, f))

UpdateFeeRecipient ==
    \E a \in Accounts, r \in {ZeroAddress, 2} :
        Transact("updateFeeRecipient", a, r, 0, updateFeeRecipient(chain.s, a, r))

EmergencyWithdraw ==
    \E a \in Accounts : Transact("emergencyWithdraw", a, 0, 0, emergencyWithdraw(chain.s, a))

InitChain ==
    /\ store = [p \in Part |-> <<>>]
    /\ part = OneContext
    /\ now = T0
    /\ nextId = 0
    /\ nextMsg = 0
    /\ chan = EmptyChan
    /\ reqPending = [c \in Ctx |-> FALSE]
    /\ listeners = NoListeners
    /\ last = NoCall
    /\ pre = <<>>
    /\ emitted = <<>>
    /\ calls = <<>>
    /\ hist = [i \in StreamIds |-> <<>>]
    /\ ended = {}
    /\ run = NoRun
    /\ \E r \in {ZeroAddress, Deployer} :
          chain = [s |-> Deployed(r), was |-> Deployed(r), tx |-> NoTx]

NextChain ==
    \/ RegisterUser
    \/ CreateModerator
    \/ CreateStream
    \/ Mine
    \/ EndStreamTx
    \/ PayModeratorUsage
    \/ WithdrawEarnings
    \/ UpdatePlatformFee
    \/ UpdateFeeRecipient
    \/ EmergencyWithdraw

SpecChain == InitChain /\ [][NextChain]_vars

\* The sum of userBalances of contract state s over the addresses as.
RECURSIVE SumBalances(_, _)
SumBalances(s, as) ==
    IF as = {} THEN 0
    ELSE LET a == CHOOSE a \in as : TRUE
         IN  s.userBalances[a] + SumBalances(s, as \ {a})
Credited(s) == SumBalances(s, Accounts \cup {ZeroAddress})

\* C28: the ether the contract holds is at least the sum of userBalances.
C28_Solvent == chain.s.balance >= Credited(chain.s)

\* C29: a payModeratorUsage that succeeds was sent by the streamer of the
\* usage's stream for an unpaid usage with at least its cost; it credits the
\* cost in total and marks the usage paid; a paid usage stays paid, and a
\* payModeratorUsage of a paid usage reverts and changes nothing.
C29_PaidOnce ==
    LET usage == UsageAt(chain.was, chain.tx.id)
    IN  /\ (chain.tx.op = "payModeratorUsage" /\ chain.tx.ok) =>
              /\ ~usage.isPaid
              /\ chain.tx.value >= usage.cost
              /\ StreamAt(chain.was, usage.streamId).streamer = chain.tx.sender
              /\ Credited(chain.s) = Credited(chain.was) + usage.cost
              /\ UsageAt(chain.s, chain.tx.id).isPaid
        /\ (chain.tx.op = "payModeratorUsage" /\ usage.isPaid) =>
              /\ ~chain.tx.ok
              /\ chain.s = chain.was
        /\ \A u \in 1..Len(chain.was.moderatorUsages) :
              chain.was.moderatorUsages[u].isPaid => UsageAt(chain.s, u).isPaid

\* The streamer sent the cost of a usage that was paid before, with a platform
\* fee credited: the transaction reverted.
C29_Witness ==
    /\ chain.tx.op = "payModeratorUsage"
    /\ ~chain.tx.ok
    /\ UsageAt(chain.was, chain.tx.id).isPaid
    /\ UsageAt(chain.was, chain.tx.id).cost > 0
    /\ chain.tx.value >= UsageAt(chain.was, chain.tx.id).cost
    /\ StreamAt(chain.was, UsageAt(chain.was, chain.tx.id).streamId).streamer = chain.tx.sender
    /\ chain.was.feeRecipient # ZeroAddress
    /\ chain.was.userBalances[chain.was.feeRecipient] > 0

\* C30: an endStream that succeeds was sent by the registered streamer of an
\* active stream and leaves it inactive; a stream that is inactive stays so;
\* an endStream of an inactive stream or by another account reverts and
\* leaves streams, moderatorUsages, nextUsageId and users as they were.
C30_EndsOnce ==
    LET stream == StreamAt(chain.was, chain.tx.id)
    IN  /\ (chain.tx.op = "endStream" /\ chain.tx.ok) =>
              /\ chain.was.users[chain.tx.sender].isRegistered
              /\ stream.streamer = chain.tx.sender
              /\ stream.isActive
              /\ ~StreamAt(chain.s, chain.tx.id).isActive
        /\ \A id \in 1..Len(chain.was.streams) :
              ~chain.was.streams[id].isActive => ~StreamAt(chain.s, id).isActive
        /\ (chain.tx.op = "endStream" /\ (~stream.isActive \/ stream.streamer # chain.tx.sender)) =>
              /\ ~chain.tx.ok
              /\ chain.s.streams = chain.was.streams
              /\ chain.s.moderatorUsages = chain.was.moderatorUsages
              /\ nextUsageId(chain.s) = nextUsageId(chain.was)
              /\ chain.s.users = chain.was.users
        /\ \A id \in 1..Len(chain.was.streams) :
              chain.s.streams[id].streamer = chain.was.streams[id].streamer

\* The streamer called endStream again for the stream it had ended with a
\* usage recorded, and the transaction reverted.
C30_Witness ==
    /\ chain.tx.op = "endStream"
    /\ ~chain.tx.ok
    /\ chain.tx.id \in 1..Len(chain.was.streams)
    /\ ~StreamAt(chain.was, chain.tx.id).isActive
    /\ StreamAt(chain.was, chain.tx.id).streamer = chain.tx.sender
    /\ chain.was.moderatorUsages # <<>>

====
